---- MODULE Spec2Model ----
(***************************************************************************)
(* Model of the guided /pitch conversation of the proposal bot            *)
(* (src/main.py): the session store, the Telegram handlers and the step   *)
(* handlers.  Text is a sequence of one-character strings.                *)
(***************************************************************************)
EXTENDS Integers, Sequences, FiniteSets, TLC

\* ------------------------------------------------------------------------
\* Program constants (src/main.py)
\* ------------------------------------------------------------------------
SESSION_TIMEOUT == 30 * 60

STEP_AWAITING_CLIENT_INFO == "awaiting_client_info"
STEP_AWAITING_BRIEF == "awaiting_brief"
STEP_AWAITING_CURRENCY == "awaiting_currency"
STEP_AWAITING_SCALE == "awaiting_scale"
STEP_AWAITING_DOCUMENT == "awaiting_document"

\* bot = telebot.TeleBot(TELEGRAM_TOKEN, threaded=False): handlers run one
\* at a time on the polling thread.
ThreadedOn == TRUE
Threaded == FALSE

\* Python's None, as a text value no message can equal.
None == << "None" >>

\* ------------------------------------------------------------------------
\* Bounds of the model
\* ------------------------------------------------------------------------
\* The clock advances at most MaxTick times.
MaxTick == 1
\* Concurrent callers of the store operations in SpecStore.
NumCallers == 2

Chats == {"chatA", "chatB"}
NumThreads == IF Threaded THEN 2 ELSE 1
Threads == 1..(IF NumCallers > NumThreads THEN NumCallers ELSE NumThreads)
Dispatchers == 1..NumThreads
Callers == 1..NumCallers
\* Heap cells: one per conversation and one per reference a thread can hold.
Objs == 1..(Cardinality(Chats) + Cardinality(Threads))
NoRef == 0

\* ------------------------------------------------------------------------
\* Python str operations used by the handlers
\* ------------------------------------------------------------------------
UpperAlpha == << "A","B","C","D","E","F","G","H","I","J","K","L","M",
                 "N","O","P","Q","R","S","T","U","V","W","X","Y","Z" >>
LowerAlpha == << "a","b","c","d","e","f","g","h","i","j","k","l","m",
                 "n","o","p","q","r","s","t","u","v","w","x","y","z" >>

LowerCh(ch) ==
    IF \E i \in 1..26 : UpperAlpha[i] = ch
    THEN LowerAlpha[CHOOSE i \in 1..26 : UpperAlpha[i] = ch]
    ELSE ch

UpperCh(ch) ==
    IF \E i \in 1..26 : LowerAlpha[i] = ch
    THEN UpperAlpha[CHOOSE i \in 1..26 : LowerAlpha[i] = ch]
    ELSE ch

\* str.lower() / str.upper()
Lower(s) == [i \in 1..Len(s) |-> LowerCh(s[i])]
Upper(s) == [i \in 1..Len(s) |-> UpperCh(s[i])]

IsSpace(ch) == ch \in {" ", "\n", "\t", "\r"}

\* s[a-1:b] in Python terms: the characters at positions a..b (1-based).
Slice(s, a, b) == IF a > b THEN << >> ELSE SubSeq(s, a, b)

\* str.strip()
Strip(s) ==
    LET keep == {i \in 1..Len(s) : ~IsSpace(s[i])}
    IN  IF keep = {} THEN << >>
        ELSE LET lo == CHOOSE i \in keep : \A j \in keep : i <= j
                 hi == CHOOSE i \in keep : \A j \in keep : j <= i
             IN  SubSeq(s, lo, hi)

\* s[i-1:].startswith(p)
PrefixAt(s, i, p) ==
    /\ i >= 1
    /\ i + Len(p) - 1 <= Len(s)
    /\ \A k \in 1..Len(p) : s[i + k - 1] = p[k]

\* str.startswith(p)
StartsWith(s, p) == PrefixAt(s, 1, p)

\* p in s
Contains(s, p) == \E i \in 1..(Len(s) + 1) : PrefixAt(s, i, p)

\* str.replace(old, ""), left to right, non-overlapping (old non-empty).
RECURSIVE RemoveFrom(_, _, _)
RemoveFrom(s, i, old) ==
    IF i > Len(s) THEN << >>
    ELSE IF PrefixAt(s, i, old) THEN RemoveFrom(s, i + Len(old), old)
    ELSE << s[i] >> \o RemoveFrom(s, i + 1, old)

RemoveAll(s, old) == RemoveFrom(s, 1, old)

\* re.compile(r'(https?://\S+|www\.\S+)', re.IGNORECASE): a match starts at
\* i when one of the prefixes is there, in any letter case, followed by at
\* least one non-space character.
UrlPrefixes == { <<"h","t","t","p",":","/","/">>,
                 <<"h","t","t","p","s",":","/","/">>,
                 <<"w","w","w",".">> }

UrlStartsAt(s, i) ==
    \E p \in UrlPrefixes :
        /\ PrefixAt(Lower(s), i, p)
        /\ i + Len(p) <= Len(s)
        /\ ~IsSpace(s[i + Len(p)])

\* url_pattern.search(text) is not None
HasUrl(s) == \E i \in 1..Len(s) : UrlStartsAt(s, i)

\* url_match.start() + 1 (1-based position of the leftmost match)
UrlStart(s) == CHOOSE i \in 1..Len(s) :
                   UrlStartsAt(s, i) /\ \A j \in 1..(i - 1) : ~UrlStartsAt(s, j)

\* url_match.end() (1-based position of the last matched character): \S+ is
\* greedy and stops at the first whitespace.
UrlEnd(s) ==
    LET st == UrlStart(s)
        sp == {j \in st..Len(s) : IsSpace(s[j])}
    IN  IF sp = {} THEN Len(s)
        ELSE (CHOOSE j \in sp : \A k \in sp : j <= k) - 1

\* url_match.group(1)
UrlToken(s) == SubSeq(s, UrlStart(s), UrlEnd(s))

HttpPrefix == <<"h","t","t","p",":","/","/">>
HttpsPrefix == <<"h","t","t","p","s",":","/","/">>

\* if not url.startswith(("http://", "https://")): url = "https://" + url
NormalizeUrl(u) ==
    IF StartsWith(u, HttpPrefix) \/ StartsWith(u, HttpsPrefix) THEN u
    ELSE HttpsPrefix \o u

\* ------------------------------------------------------------------------
\* State
\* ------------------------------------------------------------------------
VARIABLES
    now,            \* time.time(), in seconds
    user_sessions,  \* chat id -> reference to a session dict, or NoRef
    heap,           \* the session dicts, by reference
    sessions_lock,  \* thread holding sessions_lock, or 0
    pc,             \* per thread: where it is in its handler
    frame,          \* per thread: the handler's locals
    dispatched,     \* per session dict: build_proposal calls made from it
    minute,         \* datetime.now(), in minutes
    proposals_index,\* the records of static/proposals/index.json, first to last
    artifacts,      \* proposal id -> the proposal.html saved under it
    call,           \* the build_proposal call in progress and its locals
    listed,         \* what the last load_proposals_index of a web route returned
    ingest,         \* the document_parser call in progress, then what it returned
    split,          \* the _send_long_message call in progress and the chunks it sent
    CHAT_ID,        \* the module global CHAT_ID of daily_jobs.py
    scheduler,      \* the module global scheduler: None, or started by init
    environ,        \* os.environ.get("TELEGRAM_CHAT_ID")
    runs,           \* per job thread: the trigger or job it is in and its locals
    deliveries      \* the messages and photos sent so far: by which thread, to which chat

\* The variables of the bot and those of the generator.
botVars == << now, user_sessions, heap, sessions_lock, pc, frame, dispatched >>
\* The variables of daily_jobs.py.
jobVars == << split, CHAT_ID, scheduler, environ, runs, deliveries >>
genVars == << minute, proposals_index, artifacts, call, listed, ingest, jobVars >>
vars == << botVars, genVars >>

\* A heap cell no reference points to.
FreeCell ==
    [ step |-> "free", client_name |-> None, client_url |-> None,
      project_name |-> None, brief_requirement |-> None,
      detailed_requirement |-> None, currency |-> "INR",
      project_scale |-> "Medium", last_active |-> 0 ]

\* The dict literal of create_session.
NewSession(t) ==
    [ step |-> STEP_AWAITING_CLIENT_INFO, client_name |-> None,
      client_url |-> None, project_name |-> None,
      brief_requirement |-> None, detailed_requirement |-> None,
      currency |-> "INR", project_scale |-> "Medium", last_active |-> t ]

NoMessage == [ kind |-> "none", text |-> << >>, file_name |-> << >>, file_size |-> 0 ]

\* Keyword arguments of a build_proposal call (none made yet).
NoArgs ==
    [ client_name |-> None, client_url |-> None, project_name |-> None,
      brief_requirement |-> None, detailed_requirement |-> None,
      currency |-> "INR", project_scale |-> "Medium" ]

\* The store as the handler found it when its event arrived.
NoSnapshot ==
    [ us |-> [c \in Chats |-> NoRef], heap |-> [o \in Objs |-> FreeCell], now |-> 0 ]

\* handler: the function the thread is in; message: the event it handles;
\* session: its local `session`; replies: what it sent to the chat so far;
\* built: build_proposal calls it made; args: the arguments of the last one;
\* accepted: the document step accepted its input; raised: an exception
\* left the handler.
IdleFrame ==
    [ handler |-> "idle", chat |-> "chatA", message |-> NoMessage,
      session |-> NoRef, replies |-> << >>, built |-> 0, args |-> NoArgs,
      accepted |-> FALSE, raised |-> FALSE, pre |-> NoSnapshot ]

\* A dict key that is not there.
Missing == << "Missing" >>

\* get_ai_content returned None.
NoContent == [ null |-> TRUE, project_title |-> Missing, mermaid_diagram |-> Missing ]

NoProposalId == [ slug |-> << >>, timestamp |-> 0 ]

\* No build_proposal call is in progress; seq counts the calls made so far.
NoCall ==
    [ pc |-> "idle", client_name |-> None, client_url |-> None,
      project_name |-> None, client_data_name |-> None,
      proposal_id |-> NoProposalId, ai_content |-> NoContent, attempts |-> 0,
      p_name |-> None, render |-> "not_run", diagram_ok |-> FALSE,
      returned |-> FALSE,
      reply |-> "none", pre_index |-> << >>, seq |-> 0 ]

\* The bytes of no document, and the response of no request.
NoDocument == [ size |-> 0, utf8 |-> TRUE, text |-> << >>, pdf |-> "no", pages |-> << >> ]
NoResponse ==
    [ outcome |-> "none", content_length |-> None, content_type |-> << >>,
      content |-> NoDocument ]

\* No document_parser call is in progress.
NoIngest ==
    [ pc |-> "idle", file_bytes |-> NoDocument, filename |-> None, url |-> None,
      resp |-> NoResponse, installed |-> {}, text |-> None, error |-> None,
      raised |-> FALSE ]

\* No _send_long_message call is in progress.
NoSplit ==
    [ pc |-> "idle", original |-> << >>, max_len |-> 0, text |-> << >>,
      chunks |-> << >> ]

\* The chat of TELEGRAM_CHAT_ID and a chat a command comes from.
ChatEnv == << "7", "0", "0", "1" >>
ChatManual == << "4", "2" >>

\* The thread of a /funfact or /aipulse handler and the scheduler's worker.
JobThreads == {"handler", "scheduler"}

\* The job thread runs nothing.
NoRun ==
    [ pc |-> "idle", job |-> "None", chain |-> FALSE, chat_id |-> None,
      original_chat_id |-> None ]

Init ==
    /\ split = NoSplit
    /\ CHAT_ID = None
    /\ scheduler = "None"
    /\ environ \in {None, ChatEnv}
    /\ runs = [t \in JobThreads |-> NoRun]
    /\ deliveries = {}
    /\ ingest = NoIngest
    /\ minute = 0
    /\ proposals_index = << >>
    /\ artifacts = {}
    /\ call = NoCall
    /\ listed = << >>
    /\ now = 0
    /\ user_sessions = [c \in Chats |-> NoRef]
    /\ heap = [o \in Objs |-> FreeCell]
    /\ sessions_lock = 0
    /\ pc = [w \in Threads |-> "idle"]
    /\ frame = [w \in Threads |-> IdleFrame]
    /\ dispatched = [o \in Objs |-> 0]

\* ------------------------------------------------------------------------
\* Garbage collection of dicts that nothing references any more
\* ------------------------------------------------------------------------
Referenced(us, fr) ==
    {us[c] : c \in Chats} \cup {fr[w].session : w \in Threads}

Collect(h, us, fr) ==
    [o \in Objs |-> IF o \in Referenced(us, fr) THEN h[o] ELSE FreeCell]

CollectCount(d, us, fr) ==
    [o \in Objs |-> IF o \in Referenced(us, fr) THEN d[o] ELSE 0]

FreshRef(us, fr) ==
    CHOOSE o \in Objs : o \notin Referenced(us, fr)
                        /\ \A p \in Objs : p \notin Referenced(us, fr) => o <= p

\* ------------------------------------------------------------------------
\* Clock
\* ------------------------------------------------------------------------
\* Calls that wait on the network; the rest of a handler is straight-line
\* code that takes no measurable time on a clock of whole seconds.
BlockingCalls == {"fetch_remote_document", "parse_uploaded_file", "build_proposal"}

\* A clock with a background sweep that drops the sessions idle for more
\* than the timeout.
TickSweep ==
    /\ \A w \in Threads : pc[w] \in {"idle"} \cup BlockingCalls
    /\ \E d \in {SESSION_TIMEOUT, SESSION_TIMEOUT + 1} :
          /\ now + d <= MaxTick * (SESSION_TIMEOUT + 1)
          /\ now' = now + d
    /\ LET us == [c \in Chats |->
                     IF /\ user_sessions[c] # NoRef
                        /\ now' - heap[user_sessions[c]].last_active > SESSION_TIMEOUT
                     THEN NoRef ELSE user_sessions[c]]
       IN  /\ user_sessions' = us
           /\ heap' = Collect(heap, us, frame)
           /\ dispatched' = CollectCount(dispatched, us, frame)
    /\ UNCHANGED << sessions_lock, pc, frame, genVars >>

\* Time passes between events and during blocking calls: by exactly the
\* timeout, or by one second more.
Tick ==
    /\ \A w \in Threads : pc[w] \in {"idle"} \cup BlockingCalls
    /\ \E d \in {SESSION_TIMEOUT, SESSION_TIMEOUT + 1} :
          /\ now + d <= MaxTick * (SESSION_TIMEOUT + 1)
          /\ now' = now + d
    /\ UNCHANGED << user_sessions, heap, sessions_lock, pc, frame, dispatched, genVars >>

\* ------------------------------------------------------------------------
\* Session store: get_session, create_session, clear_session
\* ------------------------------------------------------------------------
\* `with sessions_lock:` on entry
LockFreeAlways(w) == TRUE
LockFree(w) == sessions_lock = 0

InStore(w) == pc[w] \in {"get_session_cs", "create_session_cs", "clear_session_cs"}

\* Where a handler continues after a store operation returns.
AfterGet(h) ==
    CASE h = "handle_cancel" -> "handle_cancel_260"
      [] h = "handle_document_upload" -> "handle_document_upload_330"
      [] h = "handle_text" -> "handle_text_391"
      [] OTHER -> "done"

AfterClear(h) ==
    CASE h = "handle_cancel" -> "handle_cancel_262"
      [] h = "handle_text" -> "handle_text_399"
      [] OTHER -> "done"

AfterCreate(h) ==
    CASE h = "handle_pitch" -> "handle_pitch_313"
      [] OTHER -> "done"

Acquire(w) ==
    /\ pc[w] \in {"get_session", "create_session", "clear_session"}
    /\ LockFree(w)
    /\ sessions_lock' = w
    /\ pc' = [pc EXCEPT ![w] =
                 CASE pc[w] = "get_session" -> "get_session_cs"
                   [] pc[w] = "create_session" -> "create_session_cs"
                   [] OTHER -> "clear_session_cs"]
    /\ UNCHANGED << now, user_sessions, heap, frame, dispatched, genVars >>

\* time.time() - session.get("last_active", 0) > SESSION_TIMEOUT
ExpiredLax(t, last_active) == t - last_active >= SESSION_TIMEOUT
ExpiredNever(t, last_active) == FALSE
Expired(t, last_active) == t - last_active > SESSION_TIMEOUT

\* get_session touching every stored session, not only the one it returns.
GetSessionBodyTouchAll(w) ==
    /\ pc[w] = "get_session_cs"
    /\ LET c == frame[w].chat
           s == user_sessions[c]
       IN  IF s # NoRef /\ Expired(now, heap[s].last_active)
           THEN LET us == [user_sessions EXCEPT ![c] = NoRef]
                    fr == [frame EXCEPT ![w].session = NoRef]
                IN  /\ user_sessions' = us
                    /\ frame' = fr
                    /\ heap' = Collect(heap, us, fr)
                    /\ dispatched' = CollectCount(dispatched, us, fr)
           ELSE LET fr == [frame EXCEPT ![w].session = s]
                    h == IF s # NoRef
                         THEN [o \in Objs |->
                                  IF \E d \in Chats : user_sessions[d] = o
                                  THEN [heap[o] EXCEPT !.last_active = now]
                                  ELSE heap[o]]
                         ELSE heap
                IN  /\ user_sessions' = user_sessions
                    /\ frame' = fr
                    /\ heap' = Collect(h, user_sessions, fr)
                    /\ dispatched' = CollectCount(dispatched, user_sessions, fr)
    /\ sessions_lock' = 0
    /\ pc' = [pc EXCEPT ![w] = AfterGet(frame[w].handler)]
    /\ UNCHANGED << now, genVars >>

\* Body of get_session and release of the lock.
GetSessionBody(w) ==
    /\ pc[w] = "get_session_cs"
    /\ LET c == frame[w].chat
           s == user_sessions[c]
       IN  IF s # NoRef /\ Expired(now, heap[s].last_active)
           THEN LET us == [user_sessions EXCEPT ![c] = NoRef]
                    fr == [frame EXCEPT ![w].session = NoRef]
                IN  /\ user_sessions' = us
                    /\ frame' = fr
                    /\ heap' = Collect(heap, us, fr)
                    /\ dispatched' = CollectCount(dispatched, us, fr)
           ELSE LET fr == [frame EXCEPT ![w].session = s]
                    h == IF s # NoRef
                         THEN [heap EXCEPT ![s].last_active = now]
                         ELSE heap
                IN  /\ user_sessions' = user_sessions
                    /\ frame' = fr
                    /\ heap' = Collect(h, user_sessions, fr)
                    /\ dispatched' = CollectCount(dispatched, user_sessions, fr)
    /\ sessions_lock' = 0
    /\ pc' = [pc EXCEPT ![w] = AfterGet(frame[w].handler)]
    /\ UNCHANGED << now, genVars >>

CreateSessionIfAbsent(w) ==
    /\ pc[w] = "create_session_cs"
    /\ LET c == frame[w].chat
           o == IF user_sessions[c] # NoRef THEN user_sessions[c]
                ELSE FreshRef(user_sessions, frame)
           us == [user_sessions EXCEPT ![c] = o]
           fr == [frame EXCEPT ![w].session = o]
       IN  /\ user_sessions' = us
           /\ frame' = fr
           /\ heap' = Collect(IF user_sessions[c] # NoRef THEN heap
                              ELSE [heap EXCEPT ![o] = NewSession(now)], us, fr)
           /\ dispatched' = CollectCount(dispatched, us, fr)
    /\ sessions_lock' = 0
    /\ pc' = [pc EXCEPT ![w] = AfterCreate(frame[w].handler)]
    /\ UNCHANGED << now, genVars >>

\* Body of create_session and release of the lock.
CreateSessionBody(w) ==
    /\ pc[w] = "create_session_cs"
    /\ LET c == frame[w].chat
           \* the dict this one replaces is freed unless a thread still holds it
           o == FreshRef([user_sessions EXCEPT ![c] = NoRef],
                         [frame EXCEPT ![w].session = NoRef])
           us == [user_sessions EXCEPT ![c] = o]
           fr == [frame EXCEPT ![w].session = o]
       IN  /\ user_sessions' = us
           /\ frame' = fr
           /\ heap' = Collect([heap EXCEPT ![o] = NewSession(now)], us, fr)
           /\ dispatched' = CollectCount([dispatched EXCEPT ![o] = 0], us, fr)
    /\ sessions_lock' = 0
    /\ pc' = [pc EXCEPT ![w] = AfterCreate(frame[w].handler)]
    /\ UNCHANGED << now, genVars >>

\* Body of clear_session and release of the lock.
ClearSessionBody(w) ==
    /\ pc[w] = "clear_session_cs"
    /\ LET c == frame[w].chat
           us == [user_sessions EXCEPT ![c] = NoRef]
       IN  /\ user_sessions' = us
           /\ heap' = Collect(heap, us, frame)
           /\ dispatched' = CollectCount(dispatched, us, frame)
    /\ sessions_lock' = 0
    /\ pc' = [pc EXCEPT ![w] = AfterClear(frame[w].handler)]
    /\ UNCHANGED << now, frame, genVars >>

\* The handler has returned: its locals are dropped.
Return(w) ==
    /\ pc[w] = "done"
    /\ pc' = [pc EXCEPT ![w] = "idle"]
    /\ LET fr == [frame EXCEPT ![w] = IdleFrame]
       IN  /\ frame' = fr
           /\ heap' = Collect(heap, user_sessions, fr)
           /\ dispatched' = CollectCount(dispatched, user_sessions, fr)
    /\ UNCHANGED << now, user_sessions, sessions_lock, genVars >>

Snapshot == [ us |-> user_sessions, heap |-> heap, now |-> now ]

\* ------------------------------------------------------------------------
\* Inbound events
\* ------------------------------------------------------------------------
TxtPitch == << "/","p","i","t","c","h" >>
TxtPitchQuick == << "/","p","i","t","c","h"," ","w","w","w",".","a",".","b"," ","P" >>
TxtCancelCmd == << "/","c","a","n","c","e","l" >>
TxtCancel == << "C","A","N","C","E","L" >>
TxtClient == << "H","i","g","h"," ","w","w","w",".","a",".","b" >>
TxtSkip == << "s","k","i","p" >>
TxtUsd == << "u","s","d" >>
TxtDocText == << "d","o","c" >>

FileTxt == << "r",".","t","x","t" >>
FileExe == << "r",".","e","x","e" >>
FilePdf == << "r",".","P","D","F" >>

\* 5 * 1024 * 1024 in handle_document_upload
MaxUploadSize == 5 * 1024 * 1024

TextMessage(t) ==
    [ kind |-> "text", text |-> t, file_name |-> << >>, file_size |-> 0 ]

Document(n, sz) ==
    [ kind |-> "document", text |-> << >>, file_name |-> n, file_size |-> sz ]

\* What each conversation may send.  chatB stands for the other
\* conversations: it starts a session and walks it to the document step.
MessagesOf(c) ==
    IF c = "chatA"
    THEN {TextMessage(t) : t \in {TxtPitch, TxtPitchQuick, TxtCancelCmd, TxtCancel,
                                  TxtClient, TxtSkip, TxtUsd}}
         \cup {Document(FileTxt, 10), Document(FileExe, 10),
               Document(FilePdf, MaxUploadSize + 1)}
    ELSE {TextMessage(t) : t \in {TxtPitch, TxtUsd}}

\* ------------------------------------------------------------------------
\* Routing of an update to the first matching handler
\* ------------------------------------------------------------------------
FirstNonSpace(s, i) ==
    LET ns == {j \in i..Len(s) : ~IsSpace(s[j])}
    IN  IF ns = {} THEN Len(s) + 1 ELSE CHOOSE j \in ns : \A k \in ns : j <= k

FirstSpace(s, i) ==
    LET sp == {j \in i..Len(s) : IsSpace(s[j])}
    IN  IF sp = {} THEN Len(s) + 1 ELSE CHOOSE j \in sp : \A k \in sp : j <= k

\* str.split(maxsplit=2)
SplitMax2(s) ==
    LET a1 == FirstNonSpace(s, 1)
        e1 == FirstSpace(s, a1)
        a2 == FirstNonSpace(s, e1)
        e2 == FirstSpace(s, a2)
        a3 == FirstNonSpace(s, e2)
    IN  IF a1 > Len(s) THEN << >>
        ELSE IF a2 > Len(s) THEN << SubSeq(s, a1, e1 - 1) >>
        ELSE IF a3 > Len(s) THEN << SubSeq(s, a1, e1 - 1), SubSeq(s, a2, e2 - 1) >>
        ELSE << SubSeq(s, a1, e1 - 1), SubSeq(s, a2, e2 - 1), SubSeq(s, a3, Len(s)) >>

\* The command a text message carries: its first word without the slash.
Command(s) ==
    LET parts == SplitMax2(s)
    IN  IF parts # << >> /\ StartsWith(parts[1], << "/" >>)
        THEN Slice(parts[1], 2, Len(parts[1]))
        ELSE << >>

\* @bot.message_handler(...) in registration order.
Route(m) ==
    LET cmd == Command(m.text)
    IN  CASE m.kind = "document" -> "handle_document_upload"
          [] m.kind = "text" /\ cmd \in {<<"s","t","a","r","t">>, <<"h","e","l","p">>} -> "handle_start"
          [] m.kind = "text" /\ cmd = <<"c","a","n","c","e","l">> -> "handle_cancel"
          [] m.kind = "text" /\ cmd = <<"p","r","o","p","o","s","a","l","s">> -> "handle_proposals"
          [] m.kind = "text" /\ cmd = <<"p","i","t","c","h">> -> "handle_pitch"
          [] OTHER -> "handle_text"

\* ------------------------------------------------------------------------
\* Step handlers, as functions of the session dict and the stripped text
\* ------------------------------------------------------------------------
\* Variants of _handle_client_info: without the empty-name check, without
\* the look after the URL, without the removal of "skip".
HandleClientInfoNoCheck(sess, text) ==
    LET hasUrl == HasUrl(text)
        before == Strip(Slice(text, 1, UrlStart(text) - 1))
        after == Strip(Slice(text, UrlEnd(text) + 1, Len(text)))
        client_name == IF hasUrl
                       THEN (IF before = << >> THEN after ELSE before)
                       ELSE Strip(RemoveAll(text, TxtSkip))
        client_url == IF hasUrl THEN NormalizeUrl(UrlToken(text)) ELSE None
    IN  [ session |-> [sess EXCEPT !.client_url = client_url,
                                   !.client_name = client_name,
                                   !.step = STEP_AWAITING_BRIEF],
          reply |-> "client_ack" ]

HandleClientInfoBeforeOnly(sess, text) ==
    LET hasUrl == HasUrl(text)
        client_name == IF hasUrl THEN Strip(Slice(text, 1, UrlStart(text) - 1))
                       ELSE Strip(RemoveAll(text, TxtSkip))
        client_url == IF hasUrl THEN NormalizeUrl(UrlToken(text)) ELSE None
        s1 == [sess EXCEPT !.client_url = client_url]
    IN  IF client_name = << >>
        THEN [ session |-> s1, reply |-> "need_client_name" ]
        ELSE [ session |-> [s1 EXCEPT !.client_name = client_name,
                                      !.step = STEP_AWAITING_BRIEF],
               reply |-> "client_ack" ]

HandleClientInfoKeepSkip(sess, text) ==
    LET hasUrl == HasUrl(text)
        before == Strip(Slice(text, 1, UrlStart(text) - 1))
        after == Strip(Slice(text, UrlEnd(text) + 1, Len(text)))
        client_name == IF hasUrl
                       THEN (IF before = << >> THEN after ELSE before)
                       ELSE Strip(text)
        client_url == IF hasUrl THEN NormalizeUrl(UrlToken(text)) ELSE None
        s1 == [sess EXCEPT !.client_url = client_url]
    IN  IF client_name = << >>
        THEN [ session |-> s1, reply |-> "need_client_name" ]
        ELSE [ session |-> [s1 EXCEPT !.client_name = client_name,
                                      !.step = STEP_AWAITING_BRIEF],
               reply |-> "client_ack" ]

\* _handle_client_info
HandleClientInfo(sess, text) ==
    LET hasUrl == HasUrl(text)
        before == Strip(Slice(text, 1, UrlStart(text) - 1))
        after == Strip(Slice(text, UrlEnd(text) + 1, Len(text)))
        client_name == IF hasUrl
                       THEN (IF before = << >> THEN after ELSE before)
                       ELSE Strip(RemoveAll(text, TxtSkip))
        client_url == IF hasUrl THEN NormalizeUrl(UrlToken(text)) ELSE None
        s1 == [sess EXCEPT !.client_url = client_url]
    IN  IF client_name = << >>
        THEN [ session |-> s1, reply |-> "need_client_name" ]
        ELSE [ session |-> [s1 EXCEPT !.client_name = client_name,
                                      !.step = STEP_AWAITING_BRIEF],
               reply |-> "client_ack" ]

\* text[:500]
BriefCap == 500

\* _handle_brief storing the whole text.
HandleBriefNoCap(sess, text) ==
    [ session |-> [sess EXCEPT
                      !.brief_requirement = IF Lower(text) = TxtSkip THEN None ELSE text,
                      !.step = STEP_AWAITING_CURRENCY],
      reply |-> "brief_ack" ]

\* _handle_brief going on to the scale question.
HandleBriefSkipCurrency(sess, text) ==
    [ session |-> [sess EXCEPT
                      !.brief_requirement =
                          IF Lower(text) = TxtSkip THEN None
                          ELSE Slice(text, 1, IF Len(text) < BriefCap THEN Len(text) ELSE BriefCap),
                      !.step = STEP_AWAITING_SCALE],
      reply |-> "brief_ack" ]

\* _handle_brief
HandleBrief(sess, text) ==
    [ session |-> [sess EXCEPT
                      !.brief_requirement =
                          IF Lower(text) = TxtSkip THEN None
                          ELSE Slice(text, 1, IF Len(text) < BriefCap THEN Len(text) ELSE BriefCap),
                      !.step = STEP_AWAITING_CURRENCY],
      reply |-> "brief_ack" ]

InrAliases == { <<"I","N","R">>, <<"₹">>, <<"R","U","P","E","E","S">>,
                <<"R","U","P","E","E">> }
UsdAliases == { <<"U","S","D">>, <<"$">>, <<"D","O","L","L","A","R">>,
                <<"D","O","L","L","A","R","S">> }

\* _handle_currency comparing the text as typed.
HandleCurrencyAsTyped(sess, text) ==
    LET choice == Strip(text)
    IN  IF choice \in InrAliases
        THEN [ session |-> [sess EXCEPT !.currency = "INR", !.step = STEP_AWAITING_SCALE],
               reply |-> "currency_ack" ]
        ELSE IF choice \in UsdAliases
        THEN [ session |-> [sess EXCEPT !.currency = "USD", !.step = STEP_AWAITING_SCALE],
               reply |-> "currency_ack" ]
        ELSE [ session |-> sess, reply |-> "need_currency" ]

\* _handle_currency taking any other answer as a currency of its own.
HandleCurrencyAnyCode(sess, text) ==
    LET choice == Upper(Strip(text))
    IN  IF choice \in InrAliases
        THEN [ session |-> [sess EXCEPT !.currency = "INR", !.step = STEP_AWAITING_SCALE],
               reply |-> "currency_ack" ]
        ELSE IF choice \in UsdAliases
        THEN [ session |-> [sess EXCEPT !.currency = "USD", !.step = STEP_AWAITING_SCALE],
               reply |-> "currency_ack" ]
        ELSE [ session |-> [sess EXCEPT !.currency = "OTHER", !.step = STEP_AWAITING_SCALE],
               reply |-> "currency_ack" ]

\* _handle_currency
HandleCurrency(sess, text) ==
    LET choice == Upper(Strip(text))
    IN  IF choice \in InrAliases
        THEN [ session |-> [sess EXCEPT !.currency = "INR", !.step = STEP_AWAITING_SCALE],
               reply |-> "currency_ack" ]
        ELSE IF choice \in UsdAliases
        THEN [ session |-> [sess EXCEPT !.currency = "USD", !.step = STEP_AWAITING_SCALE],
               reply |-> "currency_ack" ]
        ELSE [ session |-> sess, reply |-> "need_currency" ]

HandleScaleBack(sess, text) ==
    [ session |-> [sess EXCEPT !.project_scale = "Medium",
                               !.step = STEP_AWAITING_CURRENCY],
      reply |-> "scale_ack" ]

\* _handle_scale looking for the High keywords first.
HandleScaleHighFirst(sess, text) ==
    LET choice == Lower(Strip(text))
        scale == IF \/ Contains(choice, <<"h","i","g","h">>)
                    \/ Contains(choice, <<"l","a","r","g","e">>)
                    \/ Contains(choice, <<"e","n","t","e","r","p","r","i","s","e">>)
                 THEN "High"
                 ELSE IF Contains(choice, <<"s","m","a","l","l">>) THEN "Small"
                 ELSE "Medium"
    IN  [ session |-> [sess EXCEPT !.project_scale = scale,
                                   !.step = STEP_AWAITING_DOCUMENT],
          reply |-> "scale_ack" ]

\* _handle_scale
HandleScale(sess, text) ==
    LET choice == Lower(Strip(text))
        scale == IF Contains(choice, <<"s","m","a","l","l">>) THEN "Small"
                 ELSE IF \/ Contains(choice, <<"h","i","g","h">>)
                         \/ Contains(choice, <<"l","a","r","g","e">>)
                         \/ Contains(choice, <<"e","n","t","e","r","p","r","i","s","e">>)
                      THEN "High"
                 ELSE "Medium"
    IN  [ session |-> [sess EXCEPT !.project_scale = scale,
                                   !.step = STEP_AWAITING_DOCUMENT],
          reply |-> "scale_ack" ]

\* os.path.splitext(filename)[1]
SplitExt(name) ==
    LET dots == {i \in 1..Len(name) : name[i] = "."}
        seps == {i \in 1..Len(name) : name[i] = "/"}
        sep == IF seps = {} THEN 0 ELSE CHOOSE i \in seps : \A j \in seps : j <= i
        dot == IF dots = {} THEN 0 ELSE CHOOSE i \in dots : \A j \in dots : j <= i
    IN  IF dot <= sep \/ \A i \in (sep + 1)..(dot - 1) : name[i] = "."
        THEN << >>
        ELSE SubSeq(name, dot, Len(name))

AllowedExtAndExe == { <<".","t","x","t">>, <<".","m","d">>,
                      <<".","m","a","r","k","d","o","w","n">>, <<".","p","d","f">>,
                      <<".","e","x","e">> }

\* allowed_extensions
AllowedExt == { <<".","t","x","t">>, <<".","m","d">>,
                <<".","m","a","r","k","d","o","w","n">>, <<".","p","d","f">> }

\* The keyword arguments _generate_and_send reads from the session dict.
BuildArgs(sess) ==
    [ client_name |-> sess.client_name, client_url |-> sess.client_url,
      project_name |-> sess.project_name,
      brief_requirement |-> sess.brief_requirement,
      detailed_requirement |-> sess.detailed_requirement,
      currency |-> sess.currency, project_scale |-> sess.project_scale ]

\* ------------------------------------------------------------------------
\* Handlers as steps of the thread that runs them
\* ------------------------------------------------------------------------
Reply(f, tag) == [f EXCEPT !.replies = Append(@, tag)]

\* The document step takes its input as a document or as "skip".
Accept(f) == [f EXCEPT !.accepted = TRUE]

\* An exception leaves the handler.
Raise(f) == [f EXCEPT !.raised = TRUE]

\* bot.reply_to either delivers or raises.
Delivery == BOOLEAN

Goto(w, f, p, h, d) ==
    /\ frame' = [frame EXCEPT ![w] = f]
    /\ pc' = [pc EXCEPT ![w] = p]
    /\ heap' = h
    /\ dispatched' = d
    /\ UNCHANGED << now, user_sessions, sessions_lock, genVars >>

\* _generate_and_send(message, session) up to the call of build_proposal.
GenerateAndSend(w, f, h) ==
    LET s == f.session
    IN  Goto(w, [f EXCEPT !.handler = "_generate_and_send",
                          !.built = @ + 1, !.args = BuildArgs(h[s])],
             "build_proposal", h, [dispatched EXCEPT ![s] = @ + 1])

\* The thread enters the handler of message m of conversation c;
\* handle_pitch up to create_session or build_proposal.
Arrive(w, c, m) ==
    LET h == Route(m)
        f == [IdleFrame EXCEPT !.handler = h, !.chat = c, !.message = m,
                               !.pre = Snapshot]
        parts == SplitMax2(m.text)
    IN  CASE h = "handle_pitch" ->
               IF /\ Len(parts) >= 2
                  /\ \/ StartsWith(parts[2], HttpPrefix)
                     \/ StartsWith(parts[2], HttpsPrefix)
                     \/ StartsWith(parts[2], <<"w","w","w",".">>)
               THEN Goto(w, [Reply(f, "analyzing") EXCEPT
                                !.built = 1,
                                !.args = [NoArgs EXCEPT
                                    !.client_url = NormalizeUrl(parts[2]),
                                    !.project_name =
                                        IF Len(parts) > 2 THEN parts[3] ELSE None]],
                         "build_proposal", heap, dispatched)
               ELSE Goto(w, f, "create_session", heap, dispatched)
          [] h \in {"handle_start", "handle_proposals"} ->
               Goto(w, Reply(f, "info"), "done", heap, dispatched)
          [] OTHER -> Goto(w, f, "get_session", heap, dispatched)

\* An update arrives and the thread enters its handler.
Begin(w) ==
    /\ pc[w] = "idle"
    /\ \E c \in Chats : \E m \in MessagesOf(c) : Arrive(w, c, m)

HandleCancelAlways(w) ==
    /\ pc[w] = "handle_cancel_260"
    /\ Goto(w, frame[w], "clear_session", heap, dispatched)

\* handle_cancel after get_session
HandleCancel260(w) ==
    /\ pc[w] = "handle_cancel_260"
    /\ IF frame[w].session # NoRef
       THEN Goto(w, frame[w], "clear_session", heap, dispatched)
       ELSE Goto(w, Reply(frame[w], "no_active_session"), "done", heap, dispatched)

\* The reply that ends handle_cancel, handle_text's cancel branch and
\* handle_pitch's guided branch.
ReplyAndReturn(w) ==
    /\ pc[w] \in {"handle_cancel_262", "handle_text_399", "handle_pitch_313"}
    /\ Goto(w, Reply(frame[w],
                     CASE pc[w] = "handle_cancel_262" -> "cancelled"
                       [] pc[w] = "handle_text_399" -> "cancelled"
                       [] OTHER -> "pitch_prompt"),
            "done", heap, dispatched)

\* text.lower() in ("/cancel", "cancel")
IsCancelCaseSensitive(text) == text \in {TxtCancelCmd, <<"c","a","n","c","e","l">>}
IsCancel(text) == Lower(text) \in {TxtCancelCmd, <<"c","a","n","c","e","l">>}

\* handle_text after get_session: lines 391-420 and the step handler called.
HandleText391(w) ==
    /\ pc[w] = "handle_text_391"
    /\ LET f == frame[w]
           s == f.session
           text == Strip(f.message.text)
           step == heap[s].step
           r == CASE step = STEP_AWAITING_CLIENT_INFO -> HandleClientInfo(heap[s], text)
                  [] step = STEP_AWAITING_BRIEF -> HandleBrief(heap[s], text)
                  [] step = STEP_AWAITING_CURRENCY -> HandleCurrency(heap[s], text)
                  [] OTHER -> HandleScale(heap[s], text)
       IN  IF s = NoRef
           THEN Goto(w, f, "done", heap, dispatched)
           ELSE IF IsCancel(text)
           THEN Goto(w, f, "clear_session", heap, dispatched)
           ELSE IF step # STEP_AWAITING_DOCUMENT
           THEN Goto(w, Reply(f, r.reply), "done",
                     [heap EXCEPT ![s] = r.session], dispatched)
           ELSE \* _handle_document_step
                IF Lower(text) = TxtSkip
                THEN \E ok \in Delivery :
                        IF ok THEN GenerateAndSend(w, Reply(Accept(f), "generating"), heap)
                        ELSE Goto(w, Raise(Accept(f)), "done", heap, dispatched)
                ELSE IF HasUrl(text)
                THEN \E ok \in Delivery :
                        IF ok THEN Goto(w, Reply(f, "fetching"), "fetch_remote_document",
                                        heap, dispatched)
                        ELSE Goto(w, Raise(f), "done", heap, dispatched)
                ELSE Goto(w, Reply(f, "not_a_url"), "done", heap, dispatched)

\* _handle_document_step storing what the fetch returned before it looks at
\* the error.
FetchRemoteDocumentStoreFirst(w) ==
    /\ pc[w] = "fetch_remote_document"
    /\ LET f == frame[w]
           s == f.session
           h == [heap EXCEPT ![s].detailed_requirement = TxtDocText]
           e == [heap EXCEPT ![s].detailed_requirement = << >>]
       IN  \E error \in BOOLEAN, ok \in Delivery :
              IF error
              THEN Goto(w, Reply(f, "ingestion_error"), "done", e, dispatched)
              ELSE IF ok
              THEN GenerateAndSend(w, Reply(Accept(f), "extracted"), h)
              ELSE Goto(w, Raise(Accept(f)), "done", h, dispatched)

\* fetch_remote_document returns (text, None) or (None, error); then lines
\* 558-572 of _handle_document_step.
FetchRemoteDocument(w) ==
    /\ pc[w] = "fetch_remote_document"
    /\ LET f == frame[w]
           s == f.session
           h == [heap EXCEPT ![s].detailed_requirement = TxtDocText]
       IN  \E error \in BOOLEAN, ok \in Delivery :
              IF error
              THEN Goto(w, Reply(f, "ingestion_error"), "done", heap, dispatched)
              ELSE IF ok
              THEN GenerateAndSend(w, Reply(Accept(f), "extracted"), h)
              ELSE Goto(w, Raise(Accept(f)), "done", h, dispatched)

\* handle_document_upload asking only whether a session exists.
HandleDocumentUploadAnyStep(w) ==
    /\ pc[w] = "handle_document_upload_330"
    /\ LET f == frame[w]
           s == f.session
           doc == f.message
           ext == Lower(SplitExt(doc.file_name))
       IN  IF s = NoRef
           THEN Goto(w, Reply(f, "start_a_pitch_first"), "done", heap, dispatched)
           ELSE IF ext \notin AllowedExt
           THEN Goto(w, Reply(f, "unsupported_file_type"), "done", heap, dispatched)
           ELSE IF doc.file_size > MaxUploadSize
           THEN Goto(w, Reply(f, "file_too_large"), "done", heap, dispatched)
           ELSE \E ok \in Delivery :
                   IF ok THEN Goto(w, Reply(f, "processing"), "parse_uploaded_file",
                                   heap, dispatched)
                   ELSE Goto(w, Raise(f), "done", heap, dispatched)

\* handle_document_upload returning without a reply when there is no session
\* at the document step.
HandleDocumentUploadSilent(w) ==
    /\ pc[w] = "handle_document_upload_330"
    /\ LET f == frame[w]
           s == f.session
           doc == f.message
           ext == Lower(SplitExt(doc.file_name))
       IN  IF s = NoRef \/ heap[s].step # STEP_AWAITING_DOCUMENT
           THEN Goto(w, f, "done", heap, dispatched)
           ELSE IF ext \notin AllowedExt
           THEN Goto(w, Reply(f, "unsupported_file_type"), "done", heap, dispatched)
           ELSE IF doc.file_size > MaxUploadSize
           THEN Goto(w, Reply(f, "file_too_large"), "done", heap, dispatched)
           ELSE \E ok \in Delivery :
                   IF ok THEN Goto(w, Reply(f, "processing"), "parse_uploaded_file",
                                   heap, dispatched)
                   ELSE Goto(w, Raise(f), "done", heap, dispatched)

\* handle_document_upload after get_session: lines 330-357.
HandleDocumentUpload330(w) ==
    /\ pc[w] = "handle_document_upload_330"
    /\ LET f == frame[w]
           s == f.session
           doc == f.message
           ext == Lower(SplitExt(doc.file_name))
       IN  IF s = NoRef \/ heap[s].step # STEP_AWAITING_DOCUMENT
           THEN Goto(w, Reply(f, "start_a_pitch_first"), "done", heap, dispatched)
           ELSE IF ext \notin AllowedExt
           THEN Goto(w, Reply(f, "unsupported_file_type"), "done", heap, dispatched)
           ELSE IF doc.file_size > MaxUploadSize
           THEN Goto(w, Reply(f, "file_too_large"), "done", heap, dispatched)
           ELSE \E ok \in Delivery :
                   IF ok THEN Goto(w, Reply(f, "processing"), "parse_uploaded_file",
                                   heap, dispatched)
                   ELSE Goto(w, Raise(f), "done", heap, dispatched)

\* The try block of handle_document_upload: download, parse_uploaded_file,
\* acknowledgement and _generate_and_send; `except Exception` replies.
ParseUploadedFile(w) ==
    /\ pc[w] = "parse_uploaded_file"
    /\ LET f == frame[w]
           s == f.session
           h == [heap EXCEPT ![s].detailed_requirement = TxtDocText]
       IN  \E outcome \in {"text", "error", "raise"}, ok \in Delivery :
              CASE outcome = "raise" ->
                     Goto(w, Reply(f, "error_processing_file"), "done", heap, dispatched)
                [] outcome = "error" ->
                     Goto(w, Reply(f, "ingestion_error"), "done", heap, dispatched)
                [] OTHER ->
                     IF ok
                     THEN GenerateAndSend(w, Reply(Accept(f), "extracted"), h)
                     ELSE Goto(w, Reply(Accept(f), "error_processing_file"), "done",
                               h, dispatched)

\* `finally: clear_session(...)` of _generate_and_send; the quick /pitch
\* path returns without touching the store.
AfterBuildNoClear(h) == "done"
AfterBuildAlwaysClear(h) == "clear_session"
AfterBuild(h) == IF h = "_generate_and_send" THEN "clear_session" ELSE "done"

\* build_proposal returns or raises, _send_proposal_result delivers or
\* raises, `except Exception` replies with the error.
BuildProposal(w) ==
    /\ pc[w] = "build_proposal"
    /\ \E built \in BOOLEAN, ok \in Delivery :
          Goto(w, Reply(frame[w], IF built /\ ok THEN "proposal_ready"
                                  ELSE "error_generating"),
               AfterBuild(frame[w].handler), heap, dispatched)

Next ==
    \/ Tick
    \/ \E w \in Dispatchers : Begin(w)
    \/ \E w \in Dispatchers : Acquire(w)
    \/ \E w \in Dispatchers : GetSessionBody(w)
    \/ \E w \in Dispatchers : CreateSessionBody(w)
    \/ \E w \in Dispatchers : ClearSessionBody(w)
    \/ \E w \in Dispatchers : HandleCancel260(w)
    \/ \E w \in Dispatchers : ReplyAndReturn(w)
    \/ \E w \in Dispatchers : HandleText391(w)
    \/ \E w \in Dispatchers : FetchRemoteDocument(w)
    \/ \E w \in Dispatchers : HandleDocumentUpload330(w)
    \/ \E w \in Dispatchers : ParseUploadedFile(w)
    \/ \E w \in Dispatchers : BuildProposal(w)
    \/ \E w \in Dispatchers : Return(w)

Spec == Init /\ [][Next]_vars

\* ------------------------------------------------------------------------
\* SpecSteps: one conversation walks the guided flow; at each step it sends
\* the messages that exercise that step's parser
\* ------------------------------------------------------------------------
TxtAcmeUrl == << "A","c","m","e"," ","C","o","r","p"," ","h","t","t","p","s",":","/","/","a","c","m","e",".","c","o","m" >>
TxtUrlThenName == << "w","w","w",".","a",".","b"," ","E","n","t","e","r","p","r","i","s","e" >>
TxtUrlOnly == << "w","w","w",".","a",".","b" >>
TxtUpperScheme == << "A","c","m","e"," ","H","T","T","P",":","/","/","a",".","b" >>
TxtAcmeSkip == << "A","c","m","e"," ","C","o","r","p"," ","s","k","i","p" >>
TxtSkipWithUrl == << "L","a","r","g","e"," ","s","k","i","p"," ","w","w","w",".","a",".","b" >>
TxtSkipUpper == << "S","K","I","P" >>
TxtSkipper == << "A","l"," ","s","k","i","p","p","e","r" >>
TxtSkipNested == << "s","s","k","i","p","k","i","p"," ","A","l" >>
TxtNeedErp == << "N","e","e","d"," ","E","R","P" >>
TxtInrLower == << "i","n","r" >>
TxtRupeeSign == << "₹" >>
TxtRupeesMixed == << "R","u","p","e","e","S" >>
TxtRupee == << "r","u","p","e","e" >>
TxtUsdMixed == << "U","s","d" >>
TxtDollarSign == << "$" >>
TxtDollar == << "d","o","l","l","a","r" >>
TxtDollars == << "D","O","L","L","A","R","S" >>
TxtEur == << "e","u","r" >>
TxtUsdAndSign == << "u","s","d"," ","$" >>
TxtSmallHigh == << "s","m","a","l","l"," ","h","i","g","h" >>
TxtHigh == << "H","i","g","h" >>
TxtLarge == << "a"," ","L","a","r","g","e"," ","o","n","e" >>
TxtEnterprise == << "E","N","T","E","R","P","R","I","S","E" >>
TxtMediumIsh == << "m","a","y","b","e"," ","m","e","d","i","u","m","-","i","s","h" >>
TxtDocUrl == << "s","e","e"," ","w","w","w",".","a",".","b","/","r",".","p","d","f" >>
TxtNoLink == << "n","o"," ","l","i","n","k" >>
FileMd == << "n","o","t","e","s",".","m","d" >>
FileNoExt == << "R","E","A","D","M","E" >>
\* Client names and URLs the messages carry.
NameAcmeCorp == << "A","c","m","e"," ","C","o","r","p" >>
NameEnterprise == << "E","n","t","e","r","p","r","i","s","e" >>
UrlAcme == << "h","t","t","p","s",":","/","/","a","c","m","e",".","c","o","m" >>
UrlWwwAB == << "h","t","t","p","s",":","/","/","w","w","w",".","a",".","b" >>
\* One character more than the brief keeps.
TxtLong == [i \in 1..(BriefCap + 1) |-> "x"]

StepChat == "chatA"

TextsAt(step) ==
    CASE step = STEP_AWAITING_CLIENT_INFO ->
           {TxtAcmeUrl, TxtUrlThenName, TxtUrlOnly, TxtUpperScheme, TxtSkip,
            TxtAcmeSkip, TxtSkipWithUrl, TxtSkipUpper, TxtSkipper, TxtSkipNested}
      [] step = STEP_AWAITING_BRIEF -> {TxtSkip, TxtSkipUpper, TxtNeedErp, TxtLong}
      [] step = STEP_AWAITING_CURRENCY ->
           {TxtInrLower, TxtRupeeSign, TxtRupeesMixed, TxtRupee, TxtUsdMixed,
            TxtDollarSign, TxtDollar, TxtDollars, TxtEur, TxtUsdAndSign}
      [] step = STEP_AWAITING_SCALE ->
           {TxtSmallHigh, TxtHigh, TxtLarge, TxtEnterprise, TxtMediumIsh, TxtEur}
      [] OTHER -> {TxtSkip, TxtSkipUpper, TxtDocUrl, TxtNoLink}

FilesAt(step) ==
    IF step = STEP_AWAITING_DOCUMENT
    THEN {Document(FileTxt, 10), Document(FileExe, 10), Document(FileNoExt, 10),
          Document(FilePdf, MaxUploadSize + 1), Document(FileMd, MaxUploadSize)}
    ELSE {Document(FileTxt, 10)}

\* What the conversation sends, given the step its session is at.
StepMessages ==
    LET s == user_sessions[StepChat]
    IN  IF s = NoRef
        THEN {TextMessage(TxtPitch), TextMessage(TxtSkip), Document(FileTxt, 10)}
        ELSE {TextMessage(TxtPitch)}
             \cup {TextMessage(t) : t \in TextsAt(heap[s].step)}
             \cup FilesAt(heap[s].step)

BeginStep(w) ==
    /\ pc[w] = "idle"
    /\ \E m \in StepMessages : Arrive(w, StepChat, m)

NextSteps ==
    \/ \E w \in Dispatchers : BeginStep(w)
    \/ \E w \in Dispatchers : Acquire(w)
    \/ \E w \in Dispatchers : GetSessionBody(w)
    \/ \E w \in Dispatchers : CreateSessionBody(w)
    \/ \E w \in Dispatchers : ClearSessionBody(w)
    \/ \E w \in Dispatchers : ReplyAndReturn(w)
    \/ \E w \in Dispatchers : HandleText391(w)
    \/ \E w \in Dispatchers : FetchRemoteDocument(w)
    \/ \E w \in Dispatchers : HandleDocumentUpload330(w)
    \/ \E w \in Dispatchers : ParseUploadedFile(w)
    \/ \E w \in Dispatchers : BuildProposal(w)
    \/ \E w \in Dispatchers : Return(w)

SpecSteps == Init /\ [][NextSteps]_vars

\* ------------------------------------------------------------------------
\* SpecStore: the three store operations called by concurrent threads
\* ------------------------------------------------------------------------
CallStore(w) ==
    /\ pc[w] = "idle"
    /\ \E c \in Chats, op \in {"get_session", "create_session", "clear_session"} :
          /\ frame' = [frame EXCEPT ![w] =
                          [IdleFrame EXCEPT !.handler = op, !.chat = c]]
          /\ pc' = [pc EXCEPT ![w] = op]
    /\ UNCHANGED << now, user_sessions, heap, sessions_lock, dispatched, genVars >>

NextStore ==
    \/ \E w \in Callers : CallStore(w)
    \/ \E w \in Callers : Acquire(w)
    \/ \E w \in Callers : GetSessionBody(w)
    \/ \E w \in Callers : CreateSessionBody(w)
    \/ \E w \in Callers : ClearSessionBody(w)
    \/ \E w \in Callers : Return(w)

SpecStore == Init /\ [][NextStore]_vars

\* C5: no two threads are inside the locked section of get_session,
\* create_session or clear_session at the same time, and the lock is held
\* by exactly the thread that is inside.
C5_StoreOpsMutuallyExclusive ==
    /\ Cardinality({w \in Threads : InStore(w)}) <= 1
    /\ \A w \in Threads : InStore(w) => sessions_lock = w

\* Two callers contend: one is inside a store operation, another waits.
C5_Witness ==
    \E w, v \in Threads :
        /\ w # v
        /\ InStore(w)
        /\ pc[v] \in {"get_session", "create_session", "clear_session"}
        /\ frame[w].chat = frame[v].chat

\* ------------------------------------------------------------------------
\* generator.py: build_proposal and the proposals index
\* ------------------------------------------------------------------------
\* Calls of build_proposal, and minutes the clock advances, in SpecBuild.
MaxProposals == 2
MaxMinute == 1

Digits == {"0","1","2","3","4","5","6","7","8","9"}

\* \w
IsWord(ch) ==
    \/ ch \in Digits
    \/ ch = "_"
    \/ \E i \in 1..26 : ch = LowerAlpha[i] \/ ch = UpperAlpha[i]

\* re.sub(r'-+', '-', s)
RECURSIVE SqueezeDashes(_)
SqueezeDashes(s) ==
    IF Len(s) < 2 THEN s
    ELSE IF s[1] = "-" /\ s[2] = "-" THEN SqueezeDashes(Tail(s))
    ELSE << s[1] >> \o SqueezeDashes(Tail(s))

\* str.strip('-')
StripDashes(s) ==
    LET keep == {i \in 1..Len(s) : s[i] # "-"}
    IN  IF keep = {} THEN << >>
        ELSE SubSeq(s, CHOOSE i \in keep : \A j \in keep : i <= j,
                       CHOOSE i \in keep : \A j \in keep : j <= i)

\* text[:50]
SlugCap == 50

\* slugify
Slugify(text) ==
    LET t1 == Strip(Lower(text))
        t2 == SelectSeq(t1, LAMBDA ch : IsWord(ch) \/ IsSpace(ch) \/ ch = "-")
        t3 == [i \in 1..Len(t2) |-> IF IsSpace(t2[i]) \/ t2[i] = "_" THEN "-" ELSE t2[i]]
        t4 == SqueezeDashes(t3)
    IN  StripDashes(Slice(t4, 1, IF Len(t4) < SlugCap THEN Len(t4) ELSE SlugCap))

\* Python truthiness of an optional string.
Truthy(x) == x # None /\ x # Missing /\ x # << >>

\* generate_proposal_id: the slug and the time to the minute
GenerateProposalId(client_name, m) ==
    [ slug |-> IF Truthy(client_name) THEN Slugify(client_name)
               ELSE << "p","r","o","p","o","s","a","l" >>,
      timestamp |-> m ]

\* urlparse(url).netloc.replace("www.", "").split(".")[0].capitalize()
NetlocName(url) ==
    LET sch == {i \in 1..Len(url) : PrefixAt(url, i, <<":","/","/">>)}
        a == IF sch = {} THEN Len(url) + 1
             ELSE (CHOOSE i \in sch : \A j \in sch : i <= j) + 3
        sl == {i \in a..Len(url) : url[i] \in {"/", "?", "#"}}
        b == IF sl = {} THEN Len(url) ELSE (CHOOSE i \in sl : \A j \in sl : i <= j) - 1
        host == RemoveAll(Slice(url, a, b), <<"w","w","w",".">>)
        dots == {i \in 1..Len(host) : host[i] = "."}
        first == IF dots = {} THEN host
                 ELSE Slice(host, 1, (CHOOSE i \in dots : \A j \in dots : i <= j) - 1)
    IN  [i \in 1..Len(first) |-> IF i = 1 THEN UpperCh(first[i]) ELSE LowerCh(first[i])]

\* build_client_data(...)["name"]; title is the <title> scrape_client found,
\* or None.
BuildClientData(client_name, client_url, title) ==
    IF Truthy(client_url)
    THEN IF Truthy(client_name) THEN client_name
         ELSE IF Truthy(title) THEN title
         ELSE NetlocName(client_url)
    ELSE IF Truthy(client_name) THEN client_name ELSE << "C","l","i","e","n","t" >>

TitleAcmeInc == << "A","c","m","e"," ","I","n","c" >>
PageTitles == { None, TitleAcmeInc }

NameErp == << "E","R","P" >>
TitleCloudErp == << "C","l","o","u","d"," ","E","R","P" >>
MermaidCode == << "g","r","a","p","h"," ","T","D" >>

\* The arguments the two callers in main.py pass.
BuildInputs ==
    { [ client_name |-> None, client_url |-> UrlAcme, project_name |-> None ],
      [ client_name |-> None, client_url |-> UrlAcme, project_name |-> NameErp ],
      [ client_name |-> NameAcmeCorp, client_url |-> None, project_name |-> None ] }

\* json.loads of a model response: a JSON object in which a key may be
\* missing, and project_title may be "" or null.
AiContents ==
    { [ null |-> FALSE, project_title |-> TitleCloudErp, mermaid_diagram |-> MermaidCode ],
      [ null |-> FALSE, project_title |-> TitleCloudErp, mermaid_diagram |-> Missing ],
      [ null |-> FALSE, project_title |-> Missing, mermaid_diagram |-> Missing ],
      [ null |-> FALSE, project_title |-> << >>, mermaid_diagram |-> MermaidCode ],
      [ null |-> FALSE, project_title |-> None, mermaid_diagram |-> Missing ] }

\* The template data build_proposal renders and returns.
TemplateData(c) ==
    [ client_name |-> c.client_data_name, diagram_available |-> c.diagram_ok,
      project_name |-> c.p_name, ai |-> c.ai_content, proposal_id |-> c.proposal_id ]

\* render_template("proposal.html", **template_data): the page shows the
\* data it is given, absent AI content included.
RenderTemplate(data) == data

\* build_proposal is called: build_client_data, generate_proposal_id.
CallBuildProposal ==
    /\ call.pc = "idle"
    /\ call.seq < MaxProposals
    /\ \E in \in BuildInputs, title \in PageTitles :
          LET name == BuildClientData(in.client_name, in.client_url, title)
          IN  call' = [NoCall EXCEPT
                          !.pc = "get_ai_content",
                          !.seq = call.seq + 1,
                          !.client_name = in.client_name,
                          !.client_url = in.client_url,
                          !.project_name = in.project_name,
                          !.client_data_name = name,
                          !.proposal_id = GenerateProposalId(name, minute),
                          !.p_name = IF Truthy(in.project_name) THEN in.project_name
                                     ELSE None,
                          !.pre_index = proposals_index]
    /\ UNCHANGED << botVars, jobVars, ingest, minute, proposals_index, artifacts, listed >>

\* get_ai_content giving up after the primary model failed.
GetAiContentNoFallback ==
    /\ call.pc = "get_ai_content"
    /\ \E first \in AiContents \cup {NoContent} :
          LET ai == first
              p_name == IF Truthy(call.p_name) THEN call.p_name
                        ELSE IF ~ai.null
                        THEN (IF ai.project_title = Missing
                              THEN call.client_data_name \o << " ","P","r","o","j","e","c","t" >>
                              ELSE ai.project_title)
                        ELSE call.client_data_name \o << " ","P","r","o","j","e","c","t" >>
          IN  call' = [call EXCEPT !.pc = "generate_diagram",
                                   !.ai_content = ai,
                                   !.attempts = 1,
                                   !.p_name = p_name]
    /\ UNCHANGED << botVars, jobVars, ingest, minute, proposals_index, artifacts, listed >>

\* get_ai_content: the primary model, then the fallback model when the
\* first call or the parsing of its response raises; then lines 410-414 of
\* build_proposal.
GetAiContent ==
    /\ call.pc = "get_ai_content"
    /\ \E first \in AiContents \cup {NoContent}, second \in AiContents \cup {NoContent} :
          LET ai == IF ~first.null THEN first ELSE second
              p_name == IF Truthy(call.p_name) THEN call.p_name
                        ELSE IF ~ai.null
                        THEN (IF ai.project_title = Missing
                              THEN call.client_data_name \o << " ","P","r","o","j","e","c","t" >>
                              ELSE ai.project_title)
                        ELSE call.client_data_name \o << " ","P","r","o","j","e","c","t" >>
          IN  call' = [call EXCEPT !.pc = "generate_diagram",
                                   !.ai_content = ai,
                                   !.attempts = IF ~first.null THEN 1 ELSE 2,
                                   !.p_name = p_name]
    /\ UNCHANGED << botVars, jobVars, ingest, minute, proposals_index, artifacts, listed >>

\* What the mermaid command line does.
RenderOutcomes == {"ok", "exit_nonzero", "no_output_file", "timeout", "exception"}

\* generate_diagram(ai_content.get("mermaid_diagram") if ai_content else None)
GenerateDiagramIgnoresSource(code, outcome) == outcome = "ok"
GenerateDiagram(code, outcome) == Truthy(code) /\ outcome = "ok"

DiagramStep ==
    /\ call.pc = "generate_diagram"
    /\ \E outcome \in RenderOutcomes :
          call' = [call EXCEPT
                      !.pc = "save_proposal",
                      !.render = IF Truthy(call.ai_content.mermaid_diagram)
                                 THEN outcome ELSE "not_run",
                      !.diagram_ok = GenerateDiagram(call.ai_content.mermaid_diagram,
                                                     outcome)]
    /\ UNCHANGED << botVars, jobVars, ingest, minute, proposals_index, artifacts, listed >>

\* build_proposal giving up when there is no AI content to render.
SaveProposalNeedsContent ==
    /\ call.pc = "save_proposal"
    /\ IF call.ai_content.null
       THEN /\ call' = [call EXCEPT !.pc = "sent", !.reply = "error_generating"]
            /\ UNCHANGED artifacts
       ELSE /\ artifacts' = {a \in artifacts : a.id # call.proposal_id}
                            \cup {[ id |-> call.proposal_id,
                                    html |-> RenderTemplate(TemplateData(call)) ]}
            /\ call' = [call EXCEPT !.pc = "add_to_index"]
    /\ UNCHANGED << botVars, jobVars, ingest, minute, proposals_index, listed >>

\* Lines 417-441 of build_proposal: render the template and write
\* proposal.html into the proposal's directory.
SaveProposal ==
    /\ call.pc = "save_proposal"
    /\ artifacts' = {a \in artifacts : a.id # call.proposal_id}
                    \cup {[ id |-> call.proposal_id,
                            html |-> RenderTemplate(TemplateData(call)) ]}
    /\ call' = [call EXCEPT !.pc = "add_to_index"]
    /\ UNCHANGED << botVars, jobVars, ingest, minute, proposals_index, listed >>

\* load_proposals_index as add_to_index sees it: the records of the file,
\* or [] when the file cannot be read or parsed.
LoadProposalsIndex(readable) == IF readable THEN proposals_index ELSE << >>

\* index.insert(0, entry)
Insert0(index, entry) == << entry >> \o index

\* add_to_index and the return of build_proposal.
AddToIndex ==
    /\ call.pc = "add_to_index"
    /\ \E readable \in BOOLEAN :
          proposals_index' =
              Insert0(LoadProposalsIndex(readable),
                      [ id |-> call.proposal_id,
                        client_name |-> call.client_data_name,
                        project_name |-> call.p_name,
                        client_url |-> call.client_url,
                        created_at |-> minute ])
    /\ call' = [call EXCEPT !.pc = "send_proposal_result", !.returned = TRUE]
    /\ UNCHANGED << botVars, jobVars, ingest, minute, artifacts, listed >>

\* _send_proposal_result delivers, or raises into the caller's `except`.
SendProposalResult ==
    /\ call.pc = "send_proposal_result"
    /\ \E ok \in Delivery :
          call' = [call EXCEPT !.pc = "sent",
                               !.reply = IF ok THEN "proposal_ready"
                                         ELSE "error_generating"]
    /\ UNCHANGED << botVars, jobVars, ingest, minute, proposals_index, artifacts, listed >>

\* The caller returns.
ReturnFromBuild ==
    /\ call.pc = "sent"
    /\ call' = [NoCall EXCEPT !.seq = call.seq]
    /\ UNCHANGED << botVars, jobVars, ingest, minute, proposals_index, artifacts, listed >>

\* A web route (/, /proposal) reads the index.
ListProposals ==
    /\ listed' = proposals_index
    /\ listed' # listed
    /\ UNCHANGED << botVars, jobVars, ingest, minute, proposals_index, artifacts, call >>

\* A minute passes.
TickMinute ==
    /\ minute < MaxMinute
    /\ minute' = minute + 1
    /\ UNCHANGED << botVars, jobVars, ingest, proposals_index, artifacts, call, listed >>

NextBuild ==
    \/ CallBuildProposal
    \/ GetAiContent
    \/ DiagramStep
    \/ SaveProposal
    \/ AddToIndex
    \/ SendProposalResult
    \/ ReturnFromBuild
    \/ ListProposals
    \/ TickMinute

SpecBuild == Init /\ [][NextBuild]_vars

\* ------------------------------------------------------------------------
\* document_parser.py
\* ------------------------------------------------------------------------
MAX_FILE_SIZE == 5 * 1024 * 1024
MAX_WORDS == 5000

\* str.endswith(p)
EndsWith(s, p) == PrefixAt(s, Len(s) - Len(p) + 1, p)

\* re.sub(r'\r\n', '\n', text)
RECURSIVE ReplaceCrLf(_)
ReplaceCrLf(text) ==
    IF Len(text) < 2 THEN text
    ELSE IF text[1] = "\r" /\ text[2] = "\n"
    THEN << "\n" >> \o ReplaceCrLf(SubSeq(text, 3, Len(text)))
    ELSE << text[1] >> \o ReplaceCrLf(Tail(text))

\* re.sub(r'\n{3,}', '\n\n', text)
RECURSIVE SqueezeNewlines(_)
SqueezeNewlines(text) ==
    IF text = << >> THEN << >>
    ELSE IF PrefixAt(text, 1, << "\n", "\n", "\n" >>)
    THEN SqueezeNewlines(Tail(text))
    ELSE << text[1] >> \o SqueezeNewlines(Tail(text))

\* re.sub(r'[ \t]+', ' ', text)
RECURSIVE SqueezeBlanks(_)
SqueezeBlanks(text) ==
    IF text = << >> THEN << >>
    ELSE IF text[1] \in {" ", "\t"}
    THEN IF Len(text) >= 2 /\ text[2] \in {" ", "\t"}
         THEN SqueezeBlanks(Tail(text))
         ELSE << " " >> \o SqueezeBlanks(Tail(text))
    ELSE << text[1] >> \o SqueezeBlanks(Tail(text))

clean_text(text) == Strip(SqueezeBlanks(SqueezeNewlines(ReplaceCrLf(text))))

\* text.split(): where its words start and end.
WordStarts(text) ==
    {i \in 1..Len(text) : ~IsSpace(text[i]) /\ (i = 1 \/ IsSpace(text[i - 1]))}
WordEnds(text) ==
    {i \in 1..Len(text) : ~IsSpace(text[i]) /\ (i = Len(text) \/ IsSpace(text[i + 1]))}

\* " ".join(words[:n]), for the words of text from position i on.
RECURSIVE JoinWords(_, _, _)
JoinWords(text, i, n) ==
    IF n = 0 \/ i > Len(text) THEN << >>
    ELSE IF IsSpace(text[i]) THEN JoinWords(text, i + 1, n)
    ELSE LET ends == {j \in WordEnds(text) : j >= i}
             e == CHOOSE j \in ends : \A k \in ends : j <= k
             rest == JoinWords(text, e + 1, n - 1)
         IN  SubSeq(text, i, e) \o (IF rest = << >> THEN << >> ELSE << " " >> \o rest)

TruncatedNote ==
    << "\n","\n","[",".",".","."," ","t","r","u","n","c","a","t","e","d"," ","t","o"," ",
       "5","0","0","0"," ","w","o","r","d","s","]" >>

truncate_text(text) ==
    IF Cardinality(WordStarts(text)) > MAX_WORDS
    THEN JoinWords(text, 1, MAX_WORDS) \o TruncatedNote
    ELSE text

\* The bytes of a document: their number, whether they decode as UTF-8, the
\* text they decode to (as UTF-8, else as Latin-1), whether a PDF reader can
\* open them, and the text of the pages it then extracts.
TextBrief ==
    << "N","e","e","d"," "," ","a","n"," ","E","R","P","\r","\n","\n","\n","\n",
       "f","o","r"," ","4","0"," ","u","s","e","r","s","." >>
TextShort == << "E","R","P"," ","p","l","e","a","s","e" >>
TextBlank == << " ","\n","\t" >>
TextBinary == << "%","P","D","F","-","1",".","7"," ","x","r","e","f" >>
DocBrief == [ size |-> 30, utf8 |-> TRUE, text |-> TextBrief, pdf |-> "no", pages |-> << >> ]
DocShort == [ size |-> 10, utf8 |-> TRUE, text |-> TextShort, pdf |-> "no", pages |-> << >> ]
DocBlank == [ size |-> 3, utf8 |-> TRUE, text |-> TextBlank, pdf |-> "no", pages |-> << >> ]
DocEmpty == [ size |-> 0, utf8 |-> TRUE, text |-> << >>, pdf |-> "no", pages |-> << >> ]
DocLatin == [ size |-> 30, utf8 |-> FALSE, text |-> TextBrief, pdf |-> "no", pages |-> << >> ]
DocPdf == [ size |-> 13, utf8 |-> FALSE, text |-> TextBinary, pdf |-> "ok", pages |-> TextBrief ]
DocScannedPdf == [ size |-> 13, utf8 |-> FALSE, text |-> TextBinary, pdf |-> "ok", pages |-> << >> ]
DocHuge == [ size |-> MAX_FILE_SIZE + 1, utf8 |-> TRUE, text |-> TextBrief, pdf |-> "no",
             pages |-> << >> ]
Documents == {DocBrief, DocShort, DocBlank, DocEmpty, DocLatin, DocPdf, DocScannedPdf, DocHuge}

\* The PDF libraries the interpreter can import.
PdfLibraries == {"pdfplumber", "PyPDF2"}

\* What a call returned, or that it raised.
Returned(value) == [ raised |-> FALSE, value |-> value ]
Raised == [ raised |-> TRUE, value |-> None ]

\* content_bytes.decode("utf-8"), else content_bytes.decode("latin-1")
parse_text_file(content_bytes) == clean_text(content_bytes.text)

\* A reader raises on bytes that are no PDF. Under pdfplumber `except
\* Exception` turns that into None; when the import of pdfplumber failed the
\* PyPDF2 code runs inside the `except ImportError` handler, which only
\* catches a second ImportError.
parse_pdf_file(content_bytes, installed) ==
    IF "pdfplumber" \in installed
    THEN IF content_bytes.pdf = "ok"
         THEN Returned(clean_text(content_bytes.pages))
         ELSE Returned(None)
    ELSE IF "PyPDF2" \in installed
    THEN IF content_bytes.pdf = "ok"
         THEN Returned(clean_text(content_bytes.pages))
         ELSE Raised
    ELSE Returned(None)

\* The (text, error) pair of a call, or that the call raised.
Pair(text, error) == [ text |-> text, error |-> error, raised |-> FALSE ]
Propagated == [ text |-> None, error |-> None, raised |-> TRUE ]

ErrFileTooLarge == << "File too large. Maximum size is 5MB." >>
ErrTextFile == << "Could not read the text file." >>
ErrPdfFile == << "Could not extract text from PDF. Make sure 'pdfplumber' is installed." >>
ErrUnsupported == << "Unsupported file type" >>
ErrRemoteTooLarge == << "Remote file too large (>5MB)." >>
ErrRemotePdf == << "Could not extract text from the PDF." >>
ErrRemoteText == << "Could not read the document." >>
ErrFileType == << "Could not determine file type." >>
ErrTimeout == << "Request timed out." >>
ErrHttp == << "HTTP error" >>
ErrFetch == << "Could not fetch the document" >>

TextExt == { <<".","t","x","t">>, <<".","m","d">>, <<".","m","a","r","k","d","o","w","n">> }
PdfExt == <<".","p","d","f">>

parse_uploaded_file(file_bytes, filename, installed) ==
    IF file_bytes.size > MAX_FILE_SIZE THEN Pair(None, ErrFileTooLarge)
    ELSE LET ext == Lower(SplitExt(filename))
         IN  IF ext \in TextExt
             THEN LET text == parse_text_file(file_bytes)
                  IN  IF Truthy(text) THEN Pair(truncate_text(text), None)
                      ELSE Pair(None, ErrTextFile)
             ELSE IF ext = PdfExt
             THEN LET r == parse_pdf_file(file_bytes, installed)
                  IN  IF r.raised THEN Propagated
                      ELSE IF Truthy(r.value) THEN Pair(truncate_text(r.value), None)
                      ELSE Pair(None, ErrPdfFile)
             ELSE Pair(None, ErrUnsupported)

\* urlparse(url).netloc and urlparse(url).path
UrlSplit(url) ==
    LET sch == {i \in 1..Len(url) : PrefixAt(url, i, <<":","/","/">>)}
        a == IF sch = {} THEN Len(url) + 1
             ELSE (CHOOSE i \in sch : \A j \in sch : i <= j) + 3
        ends == {i \in a..Len(url) : url[i] \in {"/", "?", "#"}}
        b == IF ends = {} THEN Len(url) + 1 ELSE CHOOSE i \in ends : \A j \in ends : i <= j
        cuts == {i \in b..Len(url) : url[i] \in {"?", "#"}}
        c == IF cuts = {} THEN Len(url) + 1 ELSE CHOOSE i \in cuts : \A j \in cuts : i <= j
    IN  [ netloc |-> Slice(url, a, b - 1),
          path |-> IF sch = {} THEN Slice(url, 1, c - 1) ELSE Slice(url, b, c - 1) ]

\* int(s): the value of a string of digits; anything else is a ValueError.
IsNumber(s) == s # << >> /\ \A i \in 1..Len(s) : s[i] \in Digits
DigitString == << "0","1","2","3","4","5","6","7","8","9" >>
RECURSIVE ParseInt(_)
ParseInt(s) ==
    IF s = << >> THEN 0
    ELSE 10 * ParseInt(SubSeq(s, 1, Len(s) - 1))
         + (CHOOSE d \in 0..9 : DigitString[d + 1] = s[Len(s)])

\* fetch_remote_document: resp is what requests.get and the reading of the
\* body produce for the download URL.
fetch_remote_document(url, resp, installed) ==
    LET content == resp.content
        content_type == Lower(resp.content_type)
        parsed_path == Lower(UrlSplit(url).path)
        netloc == UrlSplit(url).netloc
    IN  IF resp.outcome = "timeout" THEN Pair(None, ErrTimeout)
        ELSE IF resp.outcome = "connection_error" THEN Pair(None, ErrFetch)
        ELSE IF resp.outcome = "http_error" THEN Pair(None, ErrHttp)
        ELSE IF Truthy(resp.content_length) /\ ~IsNumber(resp.content_length)
        THEN Pair(None, ErrFetch)
        ELSE IF Truthy(resp.content_length) /\ ParseInt(resp.content_length) > MAX_FILE_SIZE
        THEN Pair(None, ErrRemoteTooLarge)
        ELSE IF resp.outcome = "read_error" THEN Pair(None, ErrFetch)
        ELSE IF content.size > MAX_FILE_SIZE THEN Pair(None, ErrRemoteTooLarge)
        ELSE IF \/ Contains(content_type, <<"a","p","p","l","i","c","a","t","i","o","n","/","p","d","f">>)
                \/ EndsWith(parsed_path, PdfExt)
        THEN LET r == parse_pdf_file(content, installed)
             IN  IF r.raised THEN Pair(None, ErrFetch)
                 ELSE IF Truthy(r.value) THEN Pair(truncate_text(r.value), None)
                 ELSE Pair(None, ErrRemotePdf)
        ELSE IF \/ Contains(content_type, <<"t","e","x","t","/">>)
                \/ \E ext \in TextExt : EndsWith(parsed_path, ext)
                \/ Contains(netloc, <<"g","o","o","g","l","e">>)
        THEN LET text == parse_text_file(content)
             IN  IF Truthy(text) THEN Pair(truncate_text(text), None)
                 ELSE Pair(None, ErrRemoteText)
        ELSE LET cleaned == clean_text(content.text)
             IN  IF content.utf8 /\ Truthy(cleaned) /\ Len(cleaned) > 20
                 THEN Pair(truncate_text(cleaned), None)
                 ELSE Pair(None, ErrFileType)

\* The files handle_document_upload passes on and the links
\* _handle_document_step passes on.
FileBriefTxt == << "b","r","i","e","f",".","t","x","t" >>
FileBriefPdf == << "B","r","i","e","f",".","P","D","F" >>
FileSetupExe == << "s","e","t","u","p",".","e","x","e" >>
Filenames == {FileBriefTxt, FileMd, FileBriefPdf, FileSetupExe, FileNoExt}

UrlDocPdf == << "h","t","t","p","s",":","/","/","a",".","b","/","r",".","p","d","f" >>
UrlDocMd == << "h","t","t","p",":","/","/","a",".","b","/","R",".","M","D","?","v","=","1" >>
UrlDocPage == << "h","t","t","p","s",":","/","/","a",".","b","/","r" >>
UrlDocGoogle ==
    << "h","t","t","p","s",":","/","/","d","o","c","s",".","g","o","o","g","l","e",".",
       "c","o","m","/","d" >>
DocumentUrls == {UrlDocPdf, UrlDocMd, UrlDocPage, UrlDocGoogle}

ContentLengths == {None, << "x" >>, << "3","0" >>, << "5","2","4","2","8","8","1" >>}
ContentTypes ==
    { << >>, << "A","p","p","l","i","c","a","t","i","o","n","/","P","D","F" >>,
      << "t","e","x","t","/","p","l","a","i","n" >>, << "i","m","a","g","e","/","p","n","g" >> }
Responses ==
    [ outcome : {"timeout", "connection_error", "http_error"},
      content_length : {None}, content_type : {<< >>}, content : {NoDocument} ]
    \cup [ outcome : {"ok", "read_error"}, content_length : ContentLengths,
           content_type : ContentTypes, content : Documents ]

\* handle_document_upload calls parse_uploaded_file(downloaded, filename).
CallParseUploadedFile ==
    /\ ingest.pc = "idle"
    /\ \E file_bytes \in Documents, filename \in Filenames, installed \in SUBSET PdfLibraries :
          ingest' = [NoIngest EXCEPT !.pc = "parse_uploaded_file",
                                     !.file_bytes = file_bytes,
                                     !.filename = filename,
                                     !.installed = installed]
    /\ UNCHANGED << botVars, jobVars, minute, proposals_index, artifacts, call, listed >>

ParseUploadedFileReturns ==
    /\ ingest.pc = "parse_uploaded_file"
    /\ LET r == parse_uploaded_file(ingest.file_bytes, ingest.filename, ingest.installed)
       IN  ingest' = [ingest EXCEPT !.pc = "returned", !.text = r.text,
                                    !.error = r.error, !.raised = r.raised]
    /\ UNCHANGED << botVars, jobVars, minute, proposals_index, artifacts, call, listed >>

\* _handle_document_step calls fetch_remote_document(doc_url).
CallFetchRemoteDocument ==
    /\ ingest.pc = "idle"
    /\ \E url \in DocumentUrls, resp \in Responses, installed \in SUBSET PdfLibraries :
          ingest' = [NoIngest EXCEPT !.pc = "fetch_remote_document",
                                     !.url = url, !.resp = resp,
                                     !.installed = installed]
    /\ UNCHANGED << botVars, jobVars, minute, proposals_index, artifacts, call, listed >>

FetchRemoteDocumentReturns ==
    /\ ingest.pc = "fetch_remote_document"
    /\ LET r == fetch_remote_document(ingest.url, ingest.resp, ingest.installed)
       IN  ingest' = [ingest EXCEPT !.pc = "returned", !.text = r.text,
                                    !.error = r.error, !.raised = r.raised]
    /\ UNCHANGED << botVars, jobVars, minute, proposals_index, artifacts, call, listed >>

\* The caller has looked at what the call returned.
IngestDone ==
    /\ ingest.pc = "returned"
    /\ ingest' = NoIngest
    /\ UNCHANGED << botVars, jobVars, minute, proposals_index, artifacts, call, listed >>

NextIngest ==
    \/ CallParseUploadedFile
    \/ ParseUploadedFileReturns
    \/ CallFetchRemoteDocument
    \/ FetchRemoteDocumentReturns
    \/ IngestDone

SpecIngest == Init /\ [][NextIngest]_vars

\* ------------------------------------------------------------------------
\* daily_jobs.py: _send_long_message
\* ------------------------------------------------------------------------
\* Longest text and largest max_len _send_long_message is called with.
MaxTextLen == 5
MaxSplitLen == 3

\* The texts of at most n characters over a letter and the newline.
RECURSIVE TextsUpTo(_)
TextsUpTo(n) ==
    IF n = 0 THEN { << >> }
    ELSE LET shorter == TextsUpTo(n - 1)
         IN  shorter \cup {Append(t, ch) : t \in {u \in shorter : Len(u) = n - 1},
                                           ch \in {"a", "\n"}}

\* text.rfind("\n", 0, max_len): 0-based, -1 when there is none.
RFindNewline(text, max_len) ==
    LET nl == {i \in 1..Len(text) : i <= max_len /\ text[i] = "\n"}
    IN  IF nl = {} THEN -1 ELSE (CHOOSE i \in nl : \A j \in nl : j <= i) - 1

\* text.lstrip("\n") leaving the text as it is.
LStripNothing(text) == text

\* text.lstrip("\n")
LStripNewlines(text) ==
    LET keep == {i \in 1..Len(text) : text[i] # "\n"}
    IN  IF keep = {} THEN << >>
        ELSE SubSeq(text, CHOOSE i \in keep : \A j \in keep : i <= j, Len(text))

\* _send_long_message(chat_id, text, max_len) is called.
CallSendLongMessage ==
    /\ split.pc = "idle"
    /\ \E text \in TextsUpTo(MaxTextLen), max_len \in 1..MaxSplitLen :
          split' = [NoSplit EXCEPT !.pc = "loop", !.original = text,
                                   !.max_len = max_len, !.text = text]
    /\ UNCHANGED << botVars, minute, proposals_index, artifacts, call, listed, ingest,
                  CHAT_ID, scheduler, environ, runs, deliveries >>

\* One evaluation of `while text:` and of the loop body; _bot.send_message
\* delivers or raises.
SendLongMessageLoop ==
    /\ split.pc = "loop"
    /\ LET text == split.text
           found == RFindNewline(text, split.max_len)
           split_at == IF found = -1 THEN split.max_len ELSE found
       IN  IF text = << >>
           THEN split' = [split EXCEPT !.pc = "done"]
           ELSE \E ok \in Delivery :
                  IF ~ok THEN split' = [split EXCEPT !.pc = "raised"]
                  ELSE IF Len(text) <= split.max_len
                  THEN split' = [split EXCEPT !.pc = "done",
                                              !.chunks = Append(@, text)]
                  ELSE split' = [split EXCEPT
                                    !.chunks = Append(@, Slice(text, 1, split_at)),
                                    !.text = LStripNewlines(
                                                 Slice(text, split_at + 1, Len(text)))]
    /\ UNCHANGED << botVars, minute, proposals_index, artifacts, call, listed, ingest,
                  CHAT_ID, scheduler, environ, runs, deliveries >>

\* _send_long_message returns, or the exception of send_message leaves it.
ReturnFromSendLongMessage ==
    /\ split.pc \in {"done", "raised"}
    /\ split' = NoSplit
    /\ UNCHANGED << botVars, minute, proposals_index, artifacts, call, listed, ingest,
                  CHAT_ID, scheduler, environ, runs, deliveries >>

NextSplit ==
    \/ CallSendLongMessage
    \/ SendLongMessageLoop
    \/ ReturnFromSendLongMessage

SpecSplit == Init /\ [][NextSplit]_vars

\* The thread that runs the loop keeps running it.
SpecSplitLive == SpecSplit /\ WF_vars(SendLongMessageLoop)

\* ------------------------------------------------------------------------
\* daily_jobs.py: init, the scheduled jobs and the manual triggers
\* ------------------------------------------------------------------------
\* `not CHAT_ID`
Falsy(value) == value = None \/ value = << >>

\* Where a job thread goes when run_fun_fact_job or run_ai_tech_pulse_job
\* returns: a trigger to its `finally`, the scheduler's worker to rest.
AfterJob(t) == IF t = "handler" THEN "trigger_finally" ELSE "idle"

\* After the try statement of run_fun_fact_job: `if chain:`.
AfterFunFact(t) ==
    IF runs[t].chain THEN "run_ai_tech_pulse_job" ELSE AfterJob(t)

JobGoto(t, p) == runs' = [runs EXCEPT ![t].pc = p]

\* A send by thread t to the chat the global names at this moment.
SendToChatId(t) == deliveries' = deliveries \cup {[by |-> t, to |-> CHAT_ID]}

\* init(bot_instance): sets _bot and CHAT_ID and starts the scheduler.
init ==
    /\ scheduler = "None"
    /\ scheduler' = "started"
    /\ CHAT_ID' = environ
    /\ UNCHANGED << botVars, minute, proposals_index, artifacts, call, listed, ingest,
                    split, environ, runs, deliveries >>

\* The cron trigger fires run_fun_fact_job() on the scheduler's worker.
ScheduledRun ==
    /\ scheduler = "started"
    /\ runs["scheduler"].pc = "idle"
    /\ runs' = [runs EXCEPT !["scheduler"] =
                    [NoRun EXCEPT !.pc = "run_fun_fact_job", !.chain = TRUE]]
    /\ UNCHANGED << botVars, minute, proposals_index, artifacts, call, listed, ingest,
                    split, CHAT_ID, scheduler, environ, deliveries >>

\* trigger_fun_fact(chat_id) or trigger_ai_tech_pulse(chat_id) is called:
\* `original_chat_id = CHAT_ID`.
TriggerSave ==
    /\ scheduler = "started"
    /\ runs["handler"].pc = "idle"
    /\ \E chat_id \in {ChatManual, ChatEnv},
          job \in {"run_fun_fact_job", "run_ai_tech_pulse_job"} :
          runs' = [runs EXCEPT !["handler"] =
                      [ pc |-> "trigger_set", job |-> job, chain |-> FALSE,
                        chat_id |-> chat_id, original_chat_id |-> CHAT_ID ]]
    /\ UNCHANGED << botVars, minute, proposals_index, artifacts, call, listed, ingest,
                    split, CHAT_ID, scheduler, environ, deliveries >>

\* `CHAT_ID = chat_id`, then the job is entered.
TriggerSet ==
    /\ runs["handler"].pc = "trigger_set"
    /\ CHAT_ID' = runs["handler"].chat_id
    /\ JobGoto("handler", runs["handler"].job)
    /\ UNCHANGED << botVars, minute, proposals_index, artifacts, call, listed, ingest,
                    split, scheduler, environ, deliveries >>

\* `finally: CHAT_ID = original_chat_id`
TriggerFinally ==
    /\ runs["handler"].pc = "trigger_finally"
    /\ CHAT_ID' = runs["handler"].original_chat_id
    /\ runs' = [runs EXCEPT !["handler"] = NoRun]
    /\ UNCHANGED << botVars, minute, proposals_index, artifacts, call, listed, ingest,
                    split, scheduler, environ, deliveries >>

\* run_fun_fact_job: `if not _bot or not CHAT_ID: return`
FunFactGuard(t) ==
    /\ runs[t].pc = "run_fun_fact_job"
    /\ JobGoto(t, IF Falsy(CHAT_ID) THEN AfterJob(t) ELSE "fun_fact_text")
    /\ UNCHANGED << botVars, minute, proposals_index, artifacts, call, listed, ingest,
                    split, CHAT_ID, scheduler, environ, deliveries >>

\* _generate_fun_fact_text() and _bot.send_message(CHAT_ID, ...); either may
\* raise into `except Exception`.
FunFactText(t) ==
    /\ runs[t].pc = "fun_fact_text"
    /\ \E generated \in BOOLEAN, ok \in Delivery :
          IF generated
          THEN /\ SendToChatId(t)
               /\ JobGoto(t, IF ok THEN "fun_fact_image" ELSE AfterFunFact(t))
          ELSE /\ JobGoto(t, AfterFunFact(t))
               /\ UNCHANGED deliveries
    /\ UNCHANGED << botVars, minute, proposals_index, artifacts, call, listed, ingest,
                    split, CHAT_ID, scheduler, environ >>

\* generate_image_from_text(...) and _send_image(CHAT_ID, ...)
FunFactImage(t) ==
    /\ runs[t].pc = "fun_fact_image"
    /\ \E image \in BOOLEAN :
          IF image THEN SendToChatId(t) ELSE UNCHANGED deliveries
    /\ JobGoto(t, AfterFunFact(t))
    /\ UNCHANGED << botVars, minute, proposals_index, artifacts, call, listed, ingest,
                    split, CHAT_ID, scheduler, environ >>

\* run_ai_tech_pulse_job: `if not _bot or not CHAT_ID: return`
TechPulseGuard(t) ==
    /\ runs[t].pc = "run_ai_tech_pulse_job"
    /\ JobGoto(t, IF Falsy(CHAT_ID) THEN AfterJob(t) ELSE "tech_pulse_send")
    /\ UNCHANGED << botVars, minute, proposals_index, artifacts, call, listed, ingest,
                    split, CHAT_ID, scheduler, environ, deliveries >>

\* _generate_ai_tech_pulse(...), then _send_long_message(CHAT_ID, ...) or
\* _bot.send_message(CHAT_ID, ...); a failure ends in `except Exception`.
TechPulseSend(t) ==
    /\ runs[t].pc = "tech_pulse_send"
    /\ \E generated \in BOOLEAN :
          IF generated THEN SendToChatId(t) ELSE UNCHANGED deliveries
    /\ JobGoto(t, AfterJob(t))
    /\ UNCHANGED << botVars, minute, proposals_index, artifacts, call, listed, ingest,
                    split, CHAT_ID, scheduler, environ >>

NextJobs ==
    \/ init
    \/ ScheduledRun
    \/ TriggerSave
    \/ TriggerSet
    \/ TriggerFinally
    \/ \E t \in JobThreads : FunFactGuard(t)
    \/ \E t \in JobThreads : FunFactText(t)
    \/ \E t \in JobThreads : FunFactImage(t)
    \/ \E t \in JobThreads : TechPulseGuard(t)
    \/ \E t \in JobThreads : TechPulseSend(t)

SpecJobs == Init /\ [][NextJobs]_vars

\* ------------------------------------------------------------------------
\* Properties
\* ------------------------------------------------------------------------
StepOrder ==
    << STEP_AWAITING_CLIENT_INFO, STEP_AWAITING_BRIEF, STEP_AWAITING_CURRENCY,
       STEP_AWAITING_SCALE, STEP_AWAITING_DOCUMENT >>

Rank(step) == CHOOSE i \in 1..5 : StepOrder[i] = step

\* The event a finished handler handled, and what it found in the store.
Done(w, h) == pc[w] = "done" /\ Route(frame[w].message) = h
PreRef(w) == frame[w].pre.us[frame[w].chat]
PreSession(w) == frame[w].pre.heap[PreRef(w)]
PreExpired(w) ==
    PreRef(w) # NoRef /\ frame[w].pre.now - PreSession(w).last_active > SESSION_TIMEOUT
PreLive(w) == PreRef(w) # NoRef /\ ~PreExpired(w)

\* The sessions of the conversations other than c are as the handler found
\* them.
OthersUnchanged(w) ==
    \A c \in Chats \ {frame[w].chat} :
        /\ user_sessions[c] = frame[w].pre.us[c]
        /\ user_sessions[c] # NoRef =>
               heap[user_sessions[c]] = frame[w].pre.heap[user_sessions[c]]

SameButLastActive(a, b) == [a EXCEPT !.last_active = 0] = [b EXCEPT !.last_active = 0]

CancelTexts == { TxtCancelCmd, <<"c","a","n","c","e","l">> }

\* This step is the body of a create_session for conversation c.
Creates(c) ==
    \E w \in Threads :
        /\ pc[w] = "create_session_cs"
        /\ pc'[w] # "create_session_cs"
        /\ frame[w].chat = c

\* C1 as stated: under text messages, uploads and the /pitch command, the
\* step of the session stored for a conversation never moves to an earlier
\* step.
C1_StepNeverDecreases ==
    [][\A c \in Chats :
          (user_sessions[c] # NoRef /\ user_sessions'[c] # NoRef) =>
              Rank(heap'[user_sessions'[c]].step) >= Rank(heap[user_sessions[c]].step)]_vars

\* C1 amended: the step of one session dict never decreases, and the only
\* way the stored session of a conversation gets an earlier step is the
\* /pitch start command, which replaces the dict by a fresh one at
\* AWAITING_CLIENT_INFO.
C1_StepMonotoneExceptRestart ==
    [][\A c \in Chats :
          IF Creates(c)
          THEN /\ heap'[user_sessions'[c]].step = STEP_AWAITING_CLIENT_INFO
               /\ \A w \in Threads :
                     (pc[w] = "create_session_cs" /\ frame[w].chat = c) =>
                         Route(frame[w].message) = "handle_pitch"
          ELSE /\ user_sessions'[c] \in {user_sessions[c], NoRef}
               /\ user_sessions'[c] # NoRef =>
                     Rank(heap'[user_sessions[c]].step) >= Rank(heap[user_sessions[c]].step)]_vars

\* A text message has just advanced the session from the scale step to the
\* document step.
C1_Witness ==
    \E w \in Threads :
        /\ Done(w, "handle_text")
        /\ PreLive(w)
        /\ PreSession(w).step = STEP_AWAITING_SCALE
        /\ user_sessions[frame[w].chat] = PreRef(w)
        /\ heap[PreRef(w)].step = STEP_AWAITING_DOCUMENT

JustLookedUp(w) ==
    pc[w] \in {"handle_cancel_260", "handle_text_391", "handle_document_upload_330"}

\* C2: get_session returns the stored session exactly when
\* now - last_active <= SESSION_TIMEOUT, touching last_active; an older
\* session is removed by the same lookup, which returns None.
C2_TimeoutReaping ==
    \A w \in Threads :
        JustLookedUp(w) =>
            LET c == frame[w].chat
                old == PreRef(w)
            IN  IF old # NoRef /\ now - PreSession(w).last_active <= SESSION_TIMEOUT
                THEN /\ frame[w].session = old
                     /\ user_sessions[c] = old
                     /\ heap[old] = [PreSession(w) EXCEPT !.last_active = now]
                ELSE /\ frame[w].session = NoRef
                     /\ user_sessions[c] = NoRef

\* A lookup has just reaped a session one second past the timeout.
C2_Witness ==
    \E w \in Threads :
        /\ JustLookedUp(w)
        /\ PreRef(w) # NoRef
        /\ now - PreSession(w).last_active = SESSION_TIMEOUT + 1
        /\ user_sessions[frame[w].chat] = NoRef

\* C3 as stated: when the document step accepted its input ("skip", a URL
\* or an upload whose ingestion succeeded) and the handler has returned,
\* build_proposal was called exactly once and the session is gone.
C3_AcceptedMeansGeneratedOnceAndCleared ==
    \A w \in Threads :
        (pc[w] = "done" /\ frame[w].accepted) =>
            /\ frame[w].built = 1
            /\ user_sessions[frame[w].chat] = NoRef

\* C4: per conversation at most one build_proposal call is in flight, and
\* no session dict has generation dispatched from it more than once.
C4_AtMostOneGeneration ==
    /\ \A c \in Chats :
          Cardinality({w \in Threads : pc[w] = "build_proposal" /\ frame[w].chat = c}) <= 1
    /\ \A o \in Objs : dispatched[o] <= 1

\* Generation dispatched from a session has finished and the session is
\* gone.
C4_Witness ==
    \E w \in Threads :
        /\ pc[w] = "done"
        /\ frame[w].handler = "_generate_and_send"
        /\ frame[w].built = 1
        /\ dispatched[frame[w].session] = 1
        /\ user_sessions[frame[w].chat] = NoRef

HoldsSession(w) ==
    /\ frame[w].session # NoRef
    /\ pc[w] \in {"handle_text_391", "handle_document_upload_330",
                 "fetch_remote_document", "parse_uploaded_file", "build_proposal"}

\* C6: while a handler holds a session dict it reads or writes, that dict
\* is the one the store maps the conversation to, and no other thread is in
\* a store operation for that conversation.
C6_HandlerWritesReachTheStoredSession ==
    \A w \in Threads :
        HoldsSession(w) =>
            /\ user_sessions[frame[w].chat] = frame[w].session
            /\ \A v \in Threads \ {w} :
                  frame[v].chat = frame[w].chat =>
                      pc[v] \notin {"get_session", "get_session_cs", "create_session",
                                    "create_session_cs", "clear_session", "clear_session_cs"}

\* A step handler has written the brief into the stored session.
C6_Witness ==
    \E w \in Threads :
        /\ Done(w, "handle_text")
        /\ PreLive(w)
        /\ PreSession(w).step = STEP_AWAITING_BRIEF
        /\ user_sessions[frame[w].chat] = frame[w].session
        /\ heap[frame[w].session].brief_requirement = TxtUsd
        /\ heap[frame[w].session].step = STEP_AWAITING_CURRENCY

GuidedPitchDone(w) == Done(w, "handle_pitch") /\ frame[w].built = 0

\* C7: after /pitch without a URL the conversation has a fresh session
\* (step AWAITING_CLIENT_INFO, text fields absent, INR, Medium), whatever
\* was stored before, and the other conversations' sessions are unchanged.
C7_StartAlwaysFresh ==
    \A w \in Threads :
        GuidedPitchDone(w) =>
            /\ user_sessions[frame[w].chat] # NoRef
            /\ heap[user_sessions[frame[w].chat]] = NewSession(now)
            /\ \A c \in Chats \ {frame[w].chat} :
                  user_sessions[c] # user_sessions[frame[w].chat]
            /\ OthersUnchanged(w)

\* /pitch has replaced a live session that was already at the document step,
\* while the other conversation has a session too.
C7_Witness ==
    \E w \in Threads :
        /\ GuidedPitchDone(w)
        /\ PreLive(w)
        /\ PreSession(w).step = STEP_AWAITING_DOCUMENT
        /\ heap[user_sessions[frame[w].chat]].step = STEP_AWAITING_CLIENT_INFO
        /\ \E c \in Chats \ {frame[w].chat} : user_sessions[c] # NoRef

TextWithoutSession(w) ==
    /\ Done(w, "handle_text")
    /\ frame[w].message.kind = "text"
    /\ ~PreLive(w)

\* C8 as stated: a text message that finds no unexpired session changes
\* nothing in the session store.
C8_TextWithoutSessionChangesNothing ==
    \A w \in Threads :
        TextWithoutSession(w) =>
            /\ user_sessions = frame[w].pre.us
            /\ heap = frame[w].pre.heap

\* C8 amended: a text message that finds no unexpired session creates no
\* session, is not answered and starts no generation; the conversation has
\* no session afterwards (an expired one is removed by the lookup) and the
\* other conversations' sessions are unchanged.
C8_TextWithoutSessionIgnored ==
    \A w \in Threads :
        TextWithoutSession(w) =>
            /\ user_sessions[frame[w].chat] = NoRef
            /\ frame[w].replies = << >>
            /\ frame[w].built = 0
            /\ OthersUnchanged(w)

\* A text message found only an expired session, which the lookup removed.
C8_Witness ==
    \E w \in Threads :
        /\ TextWithoutSession(w)
        /\ PreExpired(w)
        /\ user_sessions[frame[w].chat] = NoRef
        /\ \E c \in Chats \ {frame[w].chat} : user_sessions[c] # NoRef

CancelTextDone(w) ==
    /\ Done(w, "handle_text")
    /\ frame[w].message.kind = "text"
    /\ Lower(Strip(frame[w].message.text)) \in CancelTexts

\* C9: a text equal to the cancel keyword in any letter case, sent at any
\* step, deletes the session; the step handlers do not see it: no field of
\* the session dict but last_active changes and no generation starts.
C9_CancelBeforeStepParsing ==
    \A w \in Threads :
        (CancelTextDone(w) /\ PreRef(w) # NoRef) =>
            /\ user_sessions[frame[w].chat] = NoRef
            /\ frame[w].built = 0
            /\ frame[w].session # NoRef =>
                  SameButLastActive(heap[frame[w].session], PreSession(w))

\* "CANCEL" has deleted a session that was at the document step.
C9_Witness ==
    \E w \in Threads :
        /\ CancelTextDone(w)
        /\ PreLive(w)
        /\ PreSession(w).step = STEP_AWAITING_DOCUMENT
        /\ frame[w].message.text = TxtCancel
        /\ frame[w].replies = << "cancelled" >>
        /\ user_sessions[frame[w].chat] = NoRef

CancelDone(w) == Done(w, "handle_cancel") \/ CancelTextDone(w)

\* C10 as stated: the cancel keyword, as the /cancel command or as text,
\* with no session stored is answered "nothing to cancel" and leaves the
\* store unchanged; with a session stored it deletes the session.
C10_CancelIdempotent ==
    \A w \in Threads :
        CancelDone(w) =>
            /\ user_sessions[frame[w].chat] = NoRef
            /\ PreRef(w) = NoRef =>
                  /\ frame[w].replies = << "no_active_session" >>
                  /\ user_sessions = frame[w].pre.us
                  /\ heap = frame[w].pre.heap

\* C10 amended: with no session stored the /cancel command is answered
\* "nothing to cancel" and the text "cancel" is ignored without a reply,
\* and both leave the store unchanged; with a session stored, either form
\* deletes it, from any step.
C10_CancelCommandIdempotent ==
    \A w \in Threads :
        CancelDone(w) =>
            /\ user_sessions[frame[w].chat] = NoRef
            /\ OthersUnchanged(w)
            /\ PreRef(w) = NoRef =>
                  /\ frame[w].replies =
                        IF Done(w, "handle_cancel") THEN << "no_active_session" >>
                        ELSE << >>
                  /\ user_sessions = frame[w].pre.us
                  /\ heap = frame[w].pre.heap
            /\ PreLive(w) => frame[w].replies = << "cancelled" >>

\* The /cancel command found no session and said so.
C10_Witness ==
    \E w \in Threads :
        /\ Done(w, "handle_cancel")
        /\ PreRef(w) = NoRef
        /\ frame[w].replies = << "no_active_session" >>
        /\ \E c \in Chats : user_sessions[c] # NoRef

\* A text message handled by the step handler of `step`: the lookup found
\* an unexpired session at that step and the text is not the cancel keyword.
StepDone(w, step) ==
    /\ Done(w, "handle_text")
    /\ frame[w].message.kind = "text"
    /\ PreLive(w)
    /\ PreSession(w).step = step
    /\ Lower(Strip(frame[w].message.text)) \notin CancelTexts

Text(w) == Strip(frame[w].message.text)

\* The session stored for the handler's conversation.
Stored(w) == heap[user_sessions[frame[w].chat]]

\* The session is still the stored one, at `step`.
StillAt(w, step) ==
    /\ user_sessions[frame[w].chat] = PreRef(w)
    /\ PreRef(w) # NoRef
    /\ Stored(w).step = step


\* C11 as stated: at AWAITING_CLIENT_INFO a message that yields an empty
\* client name (only a URL, or only "skip") is answered with the re-prompt,
\* the step stays AWAITING_CLIENT_INFO, and every field of the session other
\* than last_active, client_url included, keeps the value it had before the
\* message.
C11_RejectedClientInfoLeavesSessionUnchanged ==
    \A w \in Threads :
        /\ StepDone(w, STEP_AWAITING_CLIENT_INFO)
        /\ \/ Text(w) \in {TxtUrlOnly, TxtSkip}
           \/ frame[w].replies = << "need_client_name" >>
        => /\ frame[w].replies = << "need_client_name" >>
           /\ StillAt(w, STEP_AWAITING_CLIENT_INFO)
           /\ SameButLastActive(Stored(w), PreSession(w))

\* C12: a stored session whose step is AWAITING_BRIEF or later has a
\* non-empty client_name.
C12_ClientNameNonEmptyFromBrief ==
    \A c \in Chats :
        /\ user_sessions[c] # NoRef
        /\ heap[user_sessions[c]].step # STEP_AWAITING_CLIENT_INFO
        => /\ heap[user_sessions[c]].client_name # None
           /\ heap[user_sessions[c]].client_name # << >>

\* A session got past the client step after an empty-name message was
\* turned down at that step.
C12_Witness ==
    \E w \in Threads :
        /\ StepDone(w, STEP_AWAITING_CLIENT_INFO)
        /\ PreSession(w).client_url = UrlWwwAB
        /\ PreSession(w).client_name = None
        /\ StillAt(w, STEP_AWAITING_BRIEF)
        /\ Stored(w).client_name = NameAcmeCorp

\* The text splits at a URL token into the name and the URL: the token
\* starts with http://, https:// or www. in any letter case, runs to the
\* next whitespace and is the leftmost such token; the name is the text
\* before it, or the text after it when nothing precedes it; the URL gets
\* the https:// scheme when it has none.
SplitsAtUrl(text, name, url) ==
    \E i \in 1..Len(text) : \E j \in i..Len(text) :
        LET token == SubSeq(text, i, j)
            head == Strip(SubSeq(text, 1, i - 1))
            tail == Strip(SubSeq(text, j + 1, Len(text)))
        IN  /\ \E p \in UrlPrefixes :
                  /\ Len(token) > Len(p)
                  /\ Lower(SubSeq(token, 1, Len(p))) = p
            /\ \A k \in i..j : ~IsSpace(text[k])
            /\ j = Len(text) \/ IsSpace(text[j + 1])
            /\ \A i2 \in 1..(i - 1) : ~UrlStartsAt(text, i2)
            /\ name = IF head # << >> THEN head ELSE tail
            /\ url = IF StartsWith(token, HttpPrefix) \/ StartsWith(token, HttpsPrefix)
                     THEN token ELSE HttpsPrefix \o token

ClientInfoAccepted(w) ==
    /\ StepDone(w, STEP_AWAITING_CLIENT_INFO)
    /\ StillAt(w, STEP_AWAITING_BRIEF)

\* C14 as stated: at AWAITING_CLIENT_INFO the keyword "skip" is removed
\* wherever it appears before the client name is stored, for every accepted
\* message with or without a URL token; "Acme Corp skip" gives client_name
\* "Acme Corp" and no client_url.
C14_SkipRemovedEverywhere ==
    \A w \in Threads :
        ClientInfoAccepted(w) =>
            /\ ~Contains(Stored(w).client_name, TxtSkip)
            /\ Text(w) = TxtAcmeSkip =>
                   /\ Stored(w).client_name = NameAcmeCorp
                   /\ Stored(w).client_url = None

\* C14 amended: with no URL token in the message, the occurrences of the
\* lower-case substring "skip" found in one left-to-right pass are deleted,
\* inside words too, the rest is stripped and stored as client_name, and
\* client_url is absent; with a URL token in the message "skip" is kept.
C14_SkipRemovedWithoutUrl ==
    \A w \in Threads :
        ClientInfoAccepted(w) =>
            /\ ~HasUrl(Text(w)) => Stored(w).client_url = None
            /\ Text(w) = TxtAcmeSkip => Stored(w).client_name = NameAcmeCorp
            /\ Text(w) = TxtSkipper => Stored(w).client_name = << "A","l"," ","p","e","r" >>
            /\ Text(w) = TxtSkipUpper => Stored(w).client_name = TxtSkipUpper
            /\ Text(w) = TxtSkipNested => Stored(w).client_name = << "s","k","i","p"," ","A","l" >>
            /\ Text(w) = TxtSkipWithUrl =>
                   /\ Stored(w).client_name = << "L","a","r","g","e"," ","s","k","i","p" >>
                   /\ Stored(w).client_url = UrlWwwAB

\* "Acme Corp skip" was taken as the client "Acme Corp" without a website.
C14_Witness ==
    \E w \in Threads :
        /\ ClientInfoAccepted(w)
        /\ Text(w) = TxtAcmeSkip
        /\ Stored(w).client_name = NameAcmeCorp
        /\ Stored(w).client_url = None

\* The first n characters of a text.
FirstChars(text, n) == [i \in 1..(IF Len(text) < n THEN Len(text) ELSE n) |-> text[i]]

\* C15: at AWAITING_BRIEF every text is accepted: "skip" in any letter case
\* sets brief_requirement to absent, any other text stores its first 500
\* characters, and either way the step becomes AWAITING_CURRENCY and no
\* other field changes.
C15_BriefAlwaysAccepted ==
    \A w \in Threads :
        StepDone(w, STEP_AWAITING_BRIEF) =>
            /\ StillAt(w, STEP_AWAITING_CURRENCY)
            /\ frame[w].replies = << "brief_ack" >>
            /\ Stored(w).brief_requirement =
                   IF Text(w) \in {TxtSkip, TxtSkipUpper} THEN None
                   ELSE FirstChars(Text(w), 500)
            /\ Text(w) = TxtLong => Len(Stored(w).brief_requirement) = 500
            /\ SameButLastActive(
                   [Stored(w) EXCEPT !.brief_requirement = None,
                                     !.step = STEP_AWAITING_BRIEF],
                   [PreSession(w) EXCEPT !.brief_requirement = None])

\* A brief of 501 characters was stored cut to 500.
C15_Witness ==
    \E w \in Threads :
        /\ StepDone(w, STEP_AWAITING_BRIEF)
        /\ Len(Text(w)) = 501
        /\ Stored(w).brief_requirement # None
        /\ Len(Stored(w).brief_requirement) = 500
        /\ Stored(w).step = STEP_AWAITING_CURRENCY

InrTexts == {TxtInrLower, TxtRupeeSign, TxtRupeesMixed, TxtRupee}
UsdTexts == {TxtUsdMixed, TxtDollarSign, TxtDollar, TxtDollars}

\* C16: at AWAITING_CURRENCY each alias of {INR, ₹, RUPEES, RUPEE} in any
\* letter case sets currency INR and each of {USD, $, DOLLAR, DOLLARS} sets
\* currency USD, and the step becomes AWAITING_SCALE; any other text is
\* turned down: the step stays and the currency and the other fields are
\* unchanged.
C16_CurrencyAliases ==
    \A w \in Threads :
        StepDone(w, STEP_AWAITING_CURRENCY) =>
            LET accepted == Text(w) \in InrTexts \cup UsdTexts
                currency == IF Text(w) \in InrTexts THEN "INR" ELSE "USD"
            IN  /\ accepted =>
                       /\ StillAt(w, STEP_AWAITING_SCALE)
                       /\ Stored(w).currency = currency
                       /\ frame[w].replies = << "currency_ack" >>
                       /\ SameButLastActive(
                              [Stored(w) EXCEPT !.step = STEP_AWAITING_CURRENCY],
                              [PreSession(w) EXCEPT !.currency = currency])
                /\ ~accepted =>
                       /\ StillAt(w, STEP_AWAITING_CURRENCY)
                       /\ frame[w].replies = << "need_currency" >>
                       /\ SameButLastActive(Stored(w), PreSession(w))

\* "DOLLARS" was taken as USD.
C16_Witness ==
    \E w \in Threads :
        /\ StepDone(w, STEP_AWAITING_CURRENCY)
        /\ Text(w) = TxtDollars
        /\ Stored(w).currency = "USD"
        /\ Stored(w).step = STEP_AWAITING_SCALE

\* C17: at AWAITING_SCALE every text is accepted and the step becomes
\* AWAITING_DOCUMENT: a text containing "small" gives Small even when it
\* also contains "high", "large" or "enterprise"; otherwise one containing
\* "high", "large" or "enterprise" gives High; any other gives Medium, never
\* an error or a re-prompt.
C17_ScaleAlwaysAccepted ==
    \A w \in Threads :
        StepDone(w, STEP_AWAITING_SCALE) =>
            LET scale == CASE Text(w) = TxtSmallHigh -> "Small"
                           [] Text(w) \in {TxtHigh, TxtLarge, TxtEnterprise} -> "High"
                           [] OTHER -> "Medium"
            IN  /\ StillAt(w, STEP_AWAITING_DOCUMENT)
                /\ Stored(w).project_scale = scale
                /\ frame[w].replies = << "scale_ack" >>
                /\ SameButLastActive(
                       [Stored(w) EXCEPT !.step = STEP_AWAITING_SCALE],
                       [PreSession(w) EXCEPT !.project_scale = scale])

\* "small high" was taken as Small.
C17_Witness ==
    \E w \in Threads :
        /\ StepDone(w, STEP_AWAITING_SCALE)
        /\ Text(w) = TxtSmallHigh
        /\ Stored(w).project_scale = "Small"
        /\ Stored(w).step = STEP_AWAITING_DOCUMENT

\* C18: at AWAITING_DOCUMENT, when the ingestion of a URL fails, or the text
\* is neither "skip" nor a URL, the error is replied, build_proposal is not
\* called, and the session is still stored at AWAITING_DOCUMENT with no
\* field other than last_active changed.
C18_FailedIngestionKeepsSession ==
    \A w \in Threads :
        /\ StepDone(w, STEP_AWAITING_DOCUMENT)
        /\ Lower(Text(w)) # TxtSkip
        /\ ~frame[w].accepted
        => /\ frame[w].built = 0
           /\ StillAt(w, STEP_AWAITING_DOCUMENT)
           /\ SameButLastActive(Stored(w), PreSession(w))
           /\ ~frame[w].raised =>
                  frame[w].replies \in { << "fetching", "ingestion_error" >>,
                                         << "not_a_url" >> }
           /\ Text(w) = TxtNoLink => frame[w].replies = << "not_a_url" >>

\* The fetch of a URL sent at the document step returned an error.
C18_Witness ==
    \E w \in Threads :
        /\ StepDone(w, STEP_AWAITING_DOCUMENT)
        /\ frame[w].replies = << "fetching", "ingestion_error" >>
        /\ Stored(w).step = STEP_AWAITING_DOCUMENT
        /\ Stored(w).detailed_requirement = None

\* An upload handled while the lookup found an unexpired session at
\* AWAITING_DOCUMENT.
UploadAtDocumentStep(w) ==
    /\ Done(w, "handle_document_upload")
    /\ PreLive(w)
    /\ PreSession(w).step = STEP_AWAITING_DOCUMENT

\* C19: at AWAITING_DOCUMENT an uploaded file whose extension is not one of
\* .txt, .md, .markdown, .pdf, or whose size exceeds 5MB, is turned down
\* before any download or parse: nothing but the rejection is replied,
\* build_proposal is not called and the session's step and fields are
\* unchanged; a file of exactly 5MB with an allowed extension goes on to
\* the download.
C19_InvalidUploadRejectedBeforeIngestion ==
    \A w \in Threads :
        UploadAtDocumentStep(w) =>
            LET doc == frame[w].message
                badExt == doc.file_name \in {FileExe, FileNoExt}
                tooLarge == doc.file_size > 5 * 1024 * 1024
            IN  /\ badExt \/ tooLarge =>
                       /\ frame[w].replies =
                              << IF badExt THEN "unsupported_file_type"
                                 ELSE "file_too_large" >>
                       /\ frame[w].built = 0
                       /\ ~frame[w].accepted
                       /\ StillAt(w, STEP_AWAITING_DOCUMENT)
                       /\ SameButLastActive(Stored(w), PreSession(w))
                /\ ~(badExt \/ tooLarge) /\ ~frame[w].raised =>
                       frame[w].replies[1] = "processing"

\* An oversized .PDF upload was turned down at the document step.
C19_Witness ==
    \E w \in Threads :
        /\ UploadAtDocumentStep(w)
        /\ frame[w].message.file_name = FilePdf
        /\ frame[w].replies = << "file_too_large" >>
        /\ Stored(w).step = STEP_AWAITING_DOCUMENT

\* An upload handled while the conversation had no session or a session at
\* another step than AWAITING_DOCUMENT.
UploadOutsideDocumentStep(w) ==
    /\ Done(w, "handle_document_upload")
    /\ PreRef(w) = NoRef \/ PreSession(w).step # STEP_AWAITING_DOCUMENT

\* C20 as stated: an upload that arrives when the conversation has no session
\* or its session is not at AWAITING_DOCUMENT is answered with the guidance
\* to start a session; no parse and no build_proposal is called, no session
\* is created or deleted, and the existing session's step and fields are
\* unaffected.
C20_UploadOutsideDocumentStepChangesNothing ==
    \A w \in Threads :
        UploadOutsideDocumentStep(w) =>
            /\ frame[w].replies = << "start_a_pitch_first" >>
            /\ frame[w].built = 0
            /\ user_sessions[frame[w].chat] = PreRef(w)
            /\ PreRef(w) # NoRef => SameButLastActive(Stored(w), PreSession(w))

\* C20 amended: such an upload, and one that finds an expired session, is
\* answered with the guidance; no parse and no build_proposal is called and
\* no session is created; an unexpired session is kept with its step and
\* its fields other than last_active; an expired session is removed by the
\* lookup; the sessions of other conversations are unchanged.
C20_UploadOutsideDocumentStepRejected ==
    \A w \in Threads :
        /\ Done(w, "handle_document_upload")
        /\ ~PreLive(w) \/ PreSession(w).step # STEP_AWAITING_DOCUMENT
        => /\ frame[w].replies = << "start_a_pitch_first" >>
           /\ frame[w].built = 0
           /\ ~frame[w].accepted
           /\ OthersUnchanged(w)
           /\ IF PreLive(w)
              THEN /\ user_sessions[frame[w].chat] = PreRef(w)
                   /\ SameButLastActive(Stored(w), PreSession(w))
              ELSE user_sessions[frame[w].chat] = NoRef

\* An upload was turned down while the session was at an earlier step, and
\* the session was kept.
C20_Witness ==
    \E w \in Threads :
        /\ UploadOutsideDocumentStep(w)
        /\ PreLive(w)
        /\ frame[w].message.file_name = FileTxt
        /\ frame[w].replies = << "start_a_pitch_first" >>
        /\ user_sessions[frame[w].chat] = PreRef(w)
        /\ Stored(w).step = PreSession(w).step

\* The thread is handling the shortcut command: /pitch with a URL.
InShortcut(w) ==
    /\ pc[w] # "idle"
    /\ frame[w].message = TextMessage(TxtPitchQuick)

\* C21: the shortcut /pitch <url> [project] calls build_proposal directly
\* and never enters a store operation; from its arrival to its end, whether
\* build_proposal returns or raises, the session store, an unexpired guided
\* session of the same conversation and its last_active included, is as it
\* was when the command arrived.
C21_ShortcutLeavesStoreAlone ==
    \A w \in Threads :
        InShortcut(w) =>
            /\ pc[w] \in {"build_proposal", "done"}
            /\ frame[w].session = NoRef
            /\ sessions_lock # w
            /\ user_sessions = frame[w].pre.us
            /\ heap = frame[w].pre.heap
            /\ pc[w] = "done" => frame[w].built = 1

\* The shortcut ended with a generation error while the conversation had an
\* unexpired guided session, which is still stored.
C21_Witness ==
    \E w \in Threads :
        /\ InShortcut(w)
        /\ pc[w] = "done"
        /\ PreLive(w)
        /\ frame[w].replies = << "analyzing", "error_generating" >>
        /\ user_sessions[frame[w].chat] = PreRef(w)
        /\ Stored(w) = PreSession(w)

\* The handling of a text message or of an upload has ended.
EventDone(w) ==
    /\ pc[w] = "done"
    /\ Route(frame[w].message) \in {"handle_text", "handle_document_upload"}

\* C22 as stated: every text message and every upload the bot handles, in
\* any session state, no session and an expired session included, gets at
\* least one reply in its conversation.
C22_EveryEventAnswered ==
    \A w \in Threads : EventDone(w) => frame[w].replies # << >>

\* C22 amended: every upload, and every text message that finds an
\* unexpired session, gets at least one reply unless a reply it sends fails
\* to be delivered; a text message that finds no session or an expired one
\* gets none.
C22_EventAnsweredUnlessIgnored ==
    \A w \in Threads :
        EventDone(w) =>
            IF frame[w].message.kind = "text" /\ ~PreLive(w)
            THEN frame[w].replies = << >>
            ELSE ~frame[w].raised => frame[w].replies # << >>

\* An upload that found an expired session was answered.
C22_Witness ==
    \E w \in Threads :
        /\ EventDone(w)
        /\ frame[w].message.kind = "document"
        /\ PreExpired(w)
        /\ frame[w].replies = << "start_a_pitch_first" >>

\* The session stored for c has been idle for more than 30 minutes.
Overdue(c) ==
    /\ user_sessions[c] # NoRef
    /\ now - heap[user_sessions[c]].last_active > 1800

\* This step is the body of get_session, create_session or clear_session
\* for conversation c.
StoreOpOn(c) ==
    \E w \in Threads :
        /\ pc[w] \in {"get_session_cs", "create_session_cs", "clear_session_cs"}
        /\ pc'[w] # pc[w]
        /\ frame[w].chat = c

\* C23: the timeout is enforced lazily. No step other than a get_session,
\* create_session or clear_session for its conversation takes a session
\* out of the map, however long it has been idle, and the first such step
\* on a session idle for more than 30 minutes removes it or replaces it by
\* a new session.
C23_LazyTimeout ==
    [][\A c \in Chats :
          user_sessions[c] # NoRef =>
              IF StoreOpOn(c)
              THEN Overdue(c) =>
                       \/ user_sessions'[c] = NoRef
                       \/ /\ user_sessions'[c] # NoRef
                          /\ Creates(c)
                          /\ heap'[user_sessions'[c]].last_active = now'
                          /\ heap'[user_sessions'[c]].step = STEP_AWAITING_CLIENT_INFO
              ELSE user_sessions'[c] = user_sessions[c]]_vars

\* An event of another conversation, arrived after the session became
\* overdue, has been handled and the overdue session is still in the map.
C23_Witness ==
    \E w \in Threads : \E c \in Chats \ {frame[w].chat} :
        /\ pc[w] = "done"
        /\ frame[w].pre.now = now
        /\ frame[w].replies # << >>
        /\ Overdue(c)

\* build_proposal has returned to its caller.
BuildReturned == call.pc \in {"send_proposal_result", "sent"}

\* The artifact saved under the id of the call in progress.
Artifact == CHOOSE a \in artifacts : a.id = call.proposal_id

\* The artifact and the index record of the call are persisted.
Persisted ==
    /\ \E a \in artifacts : a.id = call.proposal_id
    /\ proposals_index # << >>
    /\ proposals_index[1].id = call.proposal_id
    /\ proposals_index[1].project_name = call.p_name

\* C24: when Content Generation returns null, build_proposal does not
\* abort: it goes through every stage, saves an artifact whose AI content is
\* null, puts a record at the head of the index and returns; the caller
\* sends the proposal result, and an error is replied only when that
\* delivery fails.
C24_NullContentStillBuilds ==
    call.ai_content.null /\ call.pc \notin {"idle", "get_ai_content"} =>
        /\ call.attempts = 2
        /\ call.pc \in {"generate_diagram", "save_proposal", "add_to_index",
                        "send_proposal_result", "sent"}
        /\ BuildReturned =>
               /\ call.returned
               /\ Persisted
               /\ Artifact.html.ai = NoContent
               /\ Artifact.html.project_name = call.p_name
        /\ call.pc = "sent" => call.reply \in {"proposal_ready", "error_generating"}
        /\ call.pc = "sent" /\ call.reply = "error_generating" => call.returned

\* A proposal without AI content was built and sent to the user.
C24_Witness ==
    /\ call.pc = "sent"
    /\ call.ai_content.null
    /\ call.returned
    /\ call.reply = "proposal_ready"
    /\ Artifact.html.ai = NoContent

C26_IndexAppendOnly ==
    [][proposals_index' # proposals_index =>
           /\ Len(proposals_index') = Len(proposals_index) + 1
           /\ Tail(proposals_index') = proposals_index
           /\ proposals_index'[1].id = call.proposal_id]_vars

\* The threads that are handling an event.
Handling == {w \in Threads : pc[w] # "idle"}

C28_IngestionNeverRaises == ingest.pc = "returned" => ~ingest.raised

\* fetch_remote_document returned an error pair for a PDF no reader opens.
C28_Witness ==
    /\ ingest.pc = "returned"
    /\ ingest.resp.outcome = "ok"
    /\ ingest.resp.content = DocBrief
    /\ ingest.url = UrlDocPdf
    /\ ingest.installed = {"PyPDF2"}
    /\ ingest.error = ErrFetch

\* This step is the body of a get_session of thread w.
GetSessionStep(w) == pc[w] = "get_session_cs" /\ pc'[w] # "get_session_cs"

\* C29: a get_session that finds a session last touched at most 30 minutes
\* ago returns it, keeps it in the store, sets its last_active to the
\* current time and changes no other field of it and nothing of any other
\* conversation's session. Each access therefore leaves the session as young
\* as a new one, and a further access at most 30 minutes later finds it.
C29_TouchOnlyLastActive ==
    [][\A w \in Threads :
          LET c == frame[w].chat
              s == user_sessions[c]
          IN  (/\ GetSessionStep(w)
               /\ s # NoRef
               /\ now - heap[s].last_active <= SESSION_TIMEOUT) =>
                  /\ user_sessions' = user_sessions
                  /\ frame'[w].session = s
                  /\ heap'[s] = [heap[s] EXCEPT !.last_active = now]
                  /\ ~Expired(now + SESSION_TIMEOUT, heap'[s].last_active)
                  /\ \A d \in Chats \ {c} :
                        user_sessions[d] # NoRef =>
                            heap'[user_sessions[d]] = heap[user_sessions[d]]]_vars

\* An upload at a wrong step, exactly 30 minutes after the last access,
\* found the session and touched it, while another conversation's session
\* kept its older last_active.
C29_Witness ==
    \E w \in Threads :
        /\ pc[w] = "handle_document_upload_330"
        /\ PreRef(w) # NoRef
        /\ now - PreSession(w).last_active = SESSION_TIMEOUT
        /\ PreSession(w).step # STEP_AWAITING_DOCUMENT
        /\ user_sessions[frame[w].chat] = PreRef(w)
        /\ heap[PreRef(w)].last_active = now
        /\ \E d \in Chats \ {frame[w].chat} :
              /\ user_sessions[d] # NoRef
              /\ heap[user_sessions[d]].last_active < now

\* The URL begins with http:// or https://, in any letter case.
HasScheme(u) == StartsWith(Lower(u), HttpPrefix) \/ StartsWith(Lower(u), HttpsPrefix)

\* What follows the scheme of a URL that has one.
AfterScheme(u) ==
    Slice(u, (IF StartsWith(Lower(u), HttpsPrefix) THEN Len(HttpsPrefix)
              ELSE Len(HttpPrefix)) + 1, Len(u))

SingleScheme(u) == HasScheme(u) /\ ~HasScheme(AfterScheme(u))

\* C30: the client-info step stores a URL token that carries a scheme, in
\* any letter case, unchanged and a token without one behind exactly one
\* "https://"; every client_url stored in a session, and every client_url
\* the shortcut passes to generation, begins with a single scheme.
C30_UrlNormalizedOnce ==
    /\ \A w \in Threads :
          (ClientInfoAccepted(w) /\ HasUrl(Text(w))) =>
              LET token == UrlToken(Text(w))
              IN  Stored(w).client_url =
                      IF HasScheme(token) THEN token ELSE HttpsPrefix \o token
    /\ \A c \in Chats :
          (user_sessions[c] # NoRef /\ heap[user_sessions[c]].client_url # None) =>
              SingleScheme(heap[user_sessions[c]].client_url)
    /\ \A w \in Threads :
          (frame[w].handler = "handle_pitch" /\ frame[w].built = 1) =>
              SingleScheme(frame[w].args.client_url)

\* The handler has called build_proposal from the guided path.
GuidedBuild(w) == frame[w].handler = "_generate_and_send" /\ frame[w].built = 1

\* C31: in the guided path generation is invoked with the values the
\* session held when the document step accepted: client_name, client_url,
\* brief_requirement, currency and project_scale as steps 1-4 left them,
\* detailed_requirement the extracted text after a successful link or upload
\* and absent after "skip", and project_name absent.
C31_GenerationGetsSessionValues ==
    \A w \in Threads :
        GuidedBuild(w) =>
            LET a == frame[w].args
                m == frame[w].message
            IN  /\ a.client_name = PreSession(w).client_name
                /\ a.client_url = PreSession(w).client_url
                /\ a.brief_requirement = PreSession(w).brief_requirement
                /\ a.currency = PreSession(w).currency
                /\ a.project_scale = PreSession(w).project_scale
                /\ a.project_name = None
                /\ a.detailed_requirement =
                       IF m.kind = "text" /\ Lower(Strip(m.text)) = TxtSkip
                       THEN None ELSE TxtDocText

\* The records of an index that carry the identifier id.
WithId(index, id) == {i \in 1..Len(index) : index[i].id = id}

\* The identifier generate_proposal_id gives a client name in minute m.
SlugOf(client_name) == GenerateProposalId(client_name, 0).slug

\* C32: a proposal identifier is a function of the client-name slug and the
\* minute. A run for a slug that an earlier run used in the same minute
\* gets that run's identifier; once it has saved, the artifact under the
\* identifier is its own page, and once add_to_index has returned the index
\* holds two records with that identifier.
C32_SameSlugSameMinuteCollides ==
    call.pc # "idle" =>
        /\ \A i \in 1..Len(call.pre_index) :
              LET rec == call.pre_index[i]
              IN  (/\ SlugOf(rec.client_name) = SlugOf(call.client_data_name)
                   /\ rec.id.timestamp = call.proposal_id.timestamp)
                  => rec.id = call.proposal_id
        /\ call.pc \in {"add_to_index", "send_proposal_result", "sent"} =>
              {a \in artifacts : a.id = call.proposal_id}
                  = {[ id |-> call.proposal_id, html |-> RenderTemplate(TemplateData(call)) ]}
        /\ (call.returned /\ WithId(call.pre_index, call.proposal_id) # {}) =>
              Cardinality(WithId(proposals_index, call.proposal_id)) >= 2

\* f"{client_data['name']} Project"
DefaultProjectName(c) == c.client_data_name \o << " ","P","r","o","j","e","c","t" >>

\* C33: build_proposal returns a non-empty project_name: the name it was
\* given; else the project title of the AI content when content generation
\* succeeded; else "<client name> Project".
C33_ProjectNameNeverEmpty ==
    call.returned =>
        /\ Truthy(call.p_name)
        /\ Truthy(call.project_name) => call.p_name = call.project_name
        /\ (~Truthy(call.project_name) /\ call.ai_content.null) =>
               call.p_name = DefaultProjectName(call)
        /\ (/\ ~Truthy(call.project_name)
            /\ ~call.ai_content.null
            /\ call.ai_content.project_title # Missing) =>
               call.p_name = call.ai_content.project_title

\* get_ai_content has returned to build_proposal.
AiContentReturned == call.pc \notin {"idle", "get_ai_content"}

\* C34: get_ai_content calls the primary model once and, when that attempt
\* raises, the fallback model once. It always returns to build_proposal,
\* after one or two attempts; it returns a payload after one attempt only
\* if the primary gave it, and null only after both attempts failed.
C34_AtMostTwoAttempts ==
    AiContentReturned =>
        /\ call.attempts \in {1, 2}
        /\ call.ai_content.null => call.attempts = 2
        /\ call.attempts = 1 => call.ai_content \in AiContents

\* The primary attempt failed and the fallback gave the payload.
C34_Witness ==
    /\ call.pc = "generate_diagram"
    /\ call.attempts = 2
    /\ call.ai_content \in AiContents

\* The text is made of the chunks in their order, with nothing but newlines
\* between them and after the last.
RECURSIVE MadeOf(_, _)
MadeOf(text, chunks) ==
    IF chunks = << >> THEN \A i \in 1..Len(text) : text[i] = "\n"
    ELSE /\ StartsWith(text, chunks[1])
         /\ MadeOf(LStripNewlines(Slice(text, Len(chunks[1]) + 1, Len(text))),
                   Tail(chunks))

\* This step sends a chunk of a text longer than max_len.
SplitStep ==
    /\ split.pc = "loop"
    /\ Len(split.text) > split.max_len
    /\ split'.chunks # split.chunks

C36_SplittingTerminates ==
    /\ [][(split.pc = "loop" /\ split'.pc = "loop" /\ split' # split) =>
              Len(split'.text) < Len(split.text)]_vars
    /\ (split.pc = "loop") ~> (split.pc \in {"done", "raised"})

\* The only newline of the window was at index 0: the loop went on with a
\* shorter text.
C36_Witness ==
    /\ split.pc = "loop"
    /\ Len(split.original) > split.max_len
    /\ split.original[1] = "\n"
    /\ RFindNewline(split.original, split.max_len) = 0
    /\ split.chunks = << << >> >>
    /\ Len(split.text) < Len(split.original)

Currencies == {"INR", "USD"}
Scales == {"Small", "Medium", "High"}

\* C37: every stored session has one of the five steps, currency INR or
\* USD and project_scale Small, Medium or High, and every build_proposal
\* call is made with a currency and a scale of these sets.
C37_TypeInvariant ==
    /\ \A c \in Chats :
          user_sessions[c] # NoRef =>
              LET sess == heap[user_sessions[c]]
              IN  /\ sess.step \in {StepOrder[i] : i \in 1..5}
                  /\ sess.currency \in Currencies
                  /\ sess.project_scale \in Scales
    /\ \A w \in Threads :
          frame[w].built >= 1 =>
              /\ frame[w].args.currency \in Currencies
              /\ frame[w].args.project_scale \in Scales

\* Generation was invoked from a session that answered USD and a High scale.
C37_Witness ==
    \E w \in Threads :
        /\ pc[w] = "build_proposal"
        /\ GuidedBuild(w)
        /\ frame[w].args.currency = "USD"
        /\ frame[w].args.project_scale = "High"

\* The session dict o is stored for a conversation or held by a handler.
InUse(o) == o \in Referenced(user_sessions, frame) /\ heap[o].step # "free"

\* This step is a create_session that puts a new dict into cell o.
Allocates(o) == \E c \in Chats : Creates(c) /\ user_sessions'[c] = o

\* C38: no step is skipped. One step of a handler changes the step of a
\* session dict only to the immediate successor in the order of the five
\* steps; while one text or document event is handled the session it found
\* is at the step it had on arrival or at the successor; and build_proposal is called from the
\* guided path only for a session that the event found, and that still is,
\* at AWAITING_DOCUMENT.
C38_NoStepSkipped ==
    /\ [][\A o \in Objs :
             (InUse(o) /\ ~Allocates(o) /\ heap'[o].step # "free"
                       /\ heap'[o].step # heap[o].step) =>
                 Rank(heap'[o].step) = Rank(heap[o].step) + 1]_vars
    /\ [](\A w \in Threads :
             (/\ Route(frame[w].message) \in {"handle_text", "handle_document_upload"}
              /\ pc[w] # "idle" /\ PreLive(w)
              /\ frame[w].session = PreRef(w)
              /\ heap[PreRef(w)].step # "free") =>
                 Rank(heap[PreRef(w)].step) - Rank(PreSession(w).step) \in {0, 1})
    /\ [](\A w \in Threads :
             (GuidedBuild(w) /\ pc[w] = "build_proposal") =>
                 /\ PreLive(w)
                 /\ frame[w].session = PreRef(w)
                 /\ PreSession(w).step = STEP_AWAITING_DOCUMENT
                 /\ heap[PreRef(w)].step = STEP_AWAITING_DOCUMENT)

\* A text message moved the session from the brief step to the currency
\* step, one step and no more.
C38_Witness ==
    \E w \in Threads :
        /\ Done(w, "handle_text")
        /\ PreLive(w)
        /\ frame[w].session = PreRef(w)
        /\ PreSession(w).step = STEP_AWAITING_BRIEF
        /\ heap[PreRef(w)].step = STEP_AWAITING_CURRENCY

\* C39: document ingestion results are well formed: parse_uploaded_file and
\* fetch_remote_document always return a pair (text, error) of which exactly
\* one component is not None, and a text returned without an error is not
\* empty.
C39_ResultWellFormed ==
    ingest.pc = "returned" =>
        /\ ~ingest.raised
        /\ (ingest.text = None) # (ingest.error = None)
        /\ ingest.error = None => ingest.text # << >>

\* The value init gave CHAT_ID.
Configured == environ

\* C40: a manual trigger does not leak its chat id. trigger_fun_fact and
\* trigger_ai_tech_pulse leave CHAT_ID at the value it had before the call,
\* and every message or photo the scheduled jobs send goes to the configured
\* chat, whatever a manual trigger does at the same time.
C40_TriggerDoesNotLeak ==
    /\ (scheduler = "started" /\ runs["handler"].pc = "idle") => CHAT_ID = Configured
    /\ \A d \in deliveries : d.by = "scheduler" => d.to = Configured

\* The part of C40 about the trigger alone: once it has returned, CHAT_ID is
\* what it was before the call.
C40_Restored ==
    (scheduler = "started" /\ runs["handler"].pc = "idle") => CHAT_ID = Configured

====
